---- MODULE Spec2Model ----
(***************************************************************************)
(* The content synchronization store (content-store.ts) together with the *)
(* remote content gateway it calls (content-service.ts) and the remote    *)
(* document store behind it.                                              *)
(*                                                                         *)
(* The store is single threaded: every action below is one run-to-        *)
(* completion piece of code between two suspension points.  A store       *)
(* operation is a task that is suspended at its Gateway call; the remote  *)
(* write of the call (Gateway...) and the continuation after the await    *)
(* (Resume...) are separate steps, and subscription pushes interleave     *)
(* with both.                                                             *)
(***************************************************************************)
EXTENDS Integers, Sequences, FiniteSets, TLC

VARIABLES
    allContent,             \* Content[]
    contentByType,          \* Record<ContentType, Content[]>
    collections,            \* ContentCollection[]
    selectedContent,        \* Content | null
    selectedCollection,     \* ContentCollection | null
    isLoading,              \* boolean
    error,                  \* Error | null
    contentUnsubscribe,     \* unsubscribe handle | null (0)
    collectionsUnsubscribe, \* unsubscribe handle | null (0)
    remoteContent,          \* the 'content' documents, newest createdAt first
    remoteCollections,      \* the 'collections' documents, newest createdAt first
    nextId,                 \* next identifier the remote store assigns
    liveContent,            \* handles of the content listeners still attached
    liveCollections,        \* handles of the collection listeners still attached
    dueContent,             \* content listeners that have a snapshot to deliver
    dueCollections,         \* collection listeners that have a snapshot to deliver
    tasks,                  \* the store operations in flight
    calls,                  \* number of store operations started so far
    lastOp                  \* the step just taken and what it handed to its caller
                            \* (items in it are plain data)

vars == <<allContent, contentByType, collections, selectedContent,
          selectedCollection, isLoading, error, contentUnsubscribe,
          collectionsUnsubscribe, remoteContent, remoteCollections, nextId,
          liveContent, liveCollections, dueContent, dueCollections, tasks,
          calls, lastOp>>

storeData == <<allContent, contentByType, collections, selectedContent,
               selectedCollection>>
storeFlags == <<isLoading, error>>
subsVars == <<contentUnsubscribe, collectionsUnsubscribe, liveContent,
              liveCollections, dueContent, dueCollections>>
remoteVars == <<remoteContent, remoteCollections, nextId>>

(***************************************************************************)
(* Bounds of the model.                                                    *)
(***************************************************************************)
MaxContent == 2         \* identifiers the remote store hands out for content
MaxCollections == 1     \* identifiers it hands out for collections
MaxTasks == 2           \* store operations in flight at once
MaxCalls == 2           \* store operations started in one run
MaxSubs == 2            \* listeners of one kind attached at once

(***************************************************************************)
(* Values.                                                                 *)
(***************************************************************************)
NULL == [null |-> TRUE]
Throws == [throws |-> TRUE]         \* the outcome of a conversion that throws
NoHandle == 0
CurrentUser == "u1"

ContentTypes == {"photo", "document", "code", "note", "art", "link"}
AddTypes == {"note", "link"}        \* the kinds the modelled UI uploads
ContentIds == 1..MaxContent
CollectionIds == 1..MaxCollections
Tasks == 1..MaxTasks
Handles == 1..MaxSubs

Has(r, f) == f \in DOMAIN r
Get(r, f, default) == IF f \in DOMAIN r THEN r[f] ELSE default

\* { ...a, ...b }
Merge(a, b) ==
    [f \in (DOMAIN a) \cup (DOMAIN b) |-> IF f \in DOMAIN b THEN b[f] ELSE a[f]]

Range(s) == {s[i] : i \in DOMAIN s}

\* Array.prototype.find: the first element that satisfies Test, or NULL
Find(s, Test(_)) ==
    IF \E i \in DOMAIN s : Test(s[i])
    THEN s[CHOOSE i \in DOMAIN s : Test(s[i]) /\ \A j \in 1..(i - 1) : ~Test(s[j])]
    ELSE NULL

FindById(s, id) == Find(s, LAMBDA item : item.id = id)

\* Array.prototype.map / filter
Map(s, F(_)) == [i \in DOMAIN s |-> F(s[i])]
Filter(s, Test(_)) == SelectSeq(s, Test)

Includes(s, x) == \E i \in DOMAIN s : s[i] = x

(***************************************************************************)
(* Arrays are objects: item.collections is [ref, val], ref the identity   *)
(* of the array and val its elements.  Two items whose collections have   *)
(* the same ref hold the same array.                                      *)
(***************************************************************************)
Arr(ref, val) == [ref |-> ref, val |-> val]

ArrayOf(item) == item.collections
ItemRefs(s) == {s[i].collections.ref : i \in DOMAIN s}

\* the item as plain data, without the identity of its array
Strip(item) == [item EXCEPT !.collections = @.val]
StripSeq(s) == [i \in DOMAIN s |-> Strip(s[i])]

(***************************************************************************)
(* The remote document store.  A document is [id, data]; data holds the   *)
(* stored fields, of which isFavorite and collections may be absent.  The *)
(* sequence is kept in the order of the queries, orderBy('createdAt',     *)
(* 'desc'): a write that stamps createdAt moves the document to the head. *)
(***************************************************************************)
Doc(id, data) == [id |-> id, data |-> data]
HasDoc(docs, id) == \E i \in DOMAIN docs : docs[i].id = id
DocData(docs, id) == (CHOOSE i \in DOMAIN docs : docs[i].id = id)
DataOf(docs, id) == docs[DocData(docs, id)].data
WithoutDoc(docs, id) == SelectSeq(docs, LAMBDA d : d.id # id)

\* where('userId', '==', userId), orderBy('createdAt', 'desc')
QueryByUser(docs, userId) == SelectSeq(docs, LAMBDA d : d.data.userId = userId)

(***************************************************************************)
(* content-service.ts: the conversions.                                   *)
(***************************************************************************)
\* convertToContent: docData -> Content; Throws for an unknown type.
\* docData carries no id, the callers add it ({...convertToContent(d), id}).
convertToContent(docData, ref) ==
    IF docData.type \in ContentTypes
    THEN [id |-> 0,
          userId |-> docData.userId,
          type |-> docData.type,
          isFavorite |-> Get(docData, "isFavorite", FALSE),
          isPublic |-> Get(docData, "isPublic", FALSE),
          collections |-> Arr(ref, Get(docData, "collections", <<>>))]
    ELSE Throws

WithId(content, id) == [content EXCEPT !.id = id]

\* convertFromContent: Content -> docData.  createdAt is stamped when the
\* content has no id; stamp tells the caller whether it is.
convertFromContent(content) ==
    IF content.type \in ContentTypes
    THEN [data |-> [userId |-> content.userId,
                    type |-> content.type,
                    isFavorite |-> Get(content, "isFavorite", FALSE),
                    isPublic |-> Get(content, "isPublic", FALSE),
                    collections |-> IF Has(content, "collections")
                                    THEN content.collections.val ELSE <<>>],
          stampCreatedAt |-> (Get(content, "id", 0) = 0)]
    ELSE Throws

\* convertToCollection
convertToCollection(docData) ==
    [id |-> 0,
     userId |-> docData.userId,
     name |-> docData.name,
     contentCount |-> Get(docData, "contentCount", 0)]

(***************************************************************************)
(* content-store.ts: the grouping of the subscription callback.           *)
(***************************************************************************)
EmptyBuckets == [k \in ContentTypes |-> <<>>]

RECURSIVE GroupFrom(_, _, _)
GroupFrom(buckets, content, i) ==
    IF i > Len(content) THEN buckets
    ELSE GroupFrom(IF content[i].type \in DOMAIN buckets
                   THEN [buckets EXCEPT ![content[i].type] = Append(@, content[i])]
                   ELSE buckets,
                   content, i + 1)

\* a grouping that adds to the buckets already in the store instead of
\* starting from empty ones
GroupByTypeOntoOld(content) == GroupFrom(contentByType, content, 1)

GroupByType(content) == GroupFrom(EmptyBuckets, content, 1)


(***************************************************************************)
(* Tasks: one store operation in flight, suspended at pc.                 *)
(***************************************************************************)
Idle == [op |-> "none", pc |-> "idle", contentId |-> 0, collectionId |-> 0,
         updates |-> NULL, data |-> NULL, captured |-> <<>>, gw |-> <<>>]

IsIdle(t) == tasks[t].pc = "idle"
\* a new operation takes the first free slot
FreeTask(t) == IsIdle(t) /\ \A u \in 1..(t - 1) : ~IsIdle(u)
CanCall(t) == FreeTask(t) /\ calls < MaxCalls

Finish(t) == [tasks EXCEPT ![t] = Idle]
Suspend(t, op, pc, contentId, collectionId, updates, data, captured, gw) ==
    [tasks EXCEPT ![t] = [op |-> op, pc |-> pc, contentId |-> contentId,
                          collectionId |-> collectionId, updates |-> updates,
                          data |-> data, captured |-> captured, gw |-> gw]]
At(t, pc, data, gw) == [tasks EXCEPT ![t].pc = pc, ![t].data = data, ![t].gw = gw]

Err(kind, t) == [kind |-> kind, task |-> t]

\* lastOp: the operation a step belongs to, how it ended for its caller
\* ("ok": returned value, "thrown": threw value, "none": still running), the
\* Gateway calls it made and the identifiers it was called with
Op(name, task, result, value, gw) ==
    [name |-> name, task |-> task, result |-> result, value |-> value, gw |-> gw,
     contentId |-> 0, collectionId |-> 0]
Step == Op("step", 0, "none", NULL, <<>>)
Ended(t, result, value) ==
    [name |-> tasks[t].op, task |-> t, result |-> result, value |-> value,
     gw |-> tasks[t].gw, contentId |-> tasks[t].contentId,
     collectionId |-> tasks[t].collectionId]
Returned(name, t, result, value, contentId, collectionId) ==
    [name |-> name, task |-> t, result |-> result, value |-> value, gw |-> <<>>,
     contentId |-> contentId, collectionId |-> collectionId]

(***************************************************************************)
(* The heap: the part of the state that holds arrays.  Array identities   *)
(* are only compared, so every step renames them in order of appearance   *)
(* (allContent, the buckets, selectedContent, the tasks).                 *)
(***************************************************************************)
Heap == [allContent |-> allContent, contentByType |-> contentByType,
         selectedContent |-> selectedContent, tasks |-> tasks]

TypeOrder == <<"photo", "document", "code", "note", "art", "link">>

HoldsArray(updates) == updates # NULL /\ Has(updates, "collections")

RECURSIVE Concat(_, _)
Concat(seqs, i) == IF i > Len(seqs) THEN <<>> ELSE seqs[i] \o Concat(seqs, i + 1)

RefsIn(s) == [i \in DOMAIN s |-> s[i].collections.ref]

HeapRefs(heap) ==
    RefsIn(heap.allContent)
    \o Concat([k \in DOMAIN TypeOrder |-> RefsIn(heap.contentByType[TypeOrder[k]])], 1)
    \o (IF heap.selectedContent = NULL THEN <<>>
        ELSE <<heap.selectedContent.collections.ref>>)
    \o Concat([t \in Tasks |-> IF HoldsArray(heap.tasks[t].updates)
                               THEN <<heap.tasks[t].updates.collections.ref>>
                               ELSE <<>>], 1)

UsedRefs == Range(HeapRefs(Heap))
\* the i-th array created by the current step
FreshRef(i) == Cardinality(UsedRefs) + i

\* the arrays of refs in order of first appearance
RECURSIVE Distinct(_, _, _)
Distinct(refs, i, seen) ==
    IF i > Len(refs) THEN seen
    ELSE Distinct(refs, i + 1,
                  IF Includes(seen, refs[i]) THEN seen ELSE Append(seen, refs[i]))

Rank(order, ref) == (CHOOSE i \in DOMAIN order : order[i] = ref) - 1

Renamed(item, order) == [item EXCEPT !.collections.ref = Rank(order, @)]

RenamedHeap(heap, order) ==
    [allContent |-> [i \in DOMAIN heap.allContent |->
                        Renamed(heap.allContent[i], order)],
     contentByType |-> [k \in ContentTypes |->
                        [i \in DOMAIN heap.contentByType[k] |->
                            Renamed(heap.contentByType[k][i], order)]],
     selectedContent |-> IF heap.selectedContent = NULL THEN NULL
                         ELSE Renamed(heap.selectedContent, order),
     tasks |-> [t \in Tasks |->
                IF HoldsArray(heap.tasks[t].updates)
                THEN [heap.tasks[t] EXCEPT !.updates = Renamed(@, order)]
                ELSE heap.tasks[t]]]

Canonical(heap) ==
    CHOOSE canonical \in {RenamedHeap(heap, order) :
                            order \in {Distinct(HeapRefs(heap), 1, <<>>)}} : TRUE

\* the step leaves the heap as given
Store(heap) ==
    \E h \in {heap} :
        \E canonical \in {Canonical(h)} :
            /\ allContent' = canonical.allContent
            /\ contentByType' = canonical.contentByType
            /\ selectedContent' = canonical.selectedContent
            /\ tasks' = canonical.tasks

heapVars == <<allContent, contentByType, selectedContent, tasks>>
collectionData == <<collections, selectedCollection>>

(***************************************************************************)
(* The initial state: the store as constructed (lines 65-80), with the    *)
(* two selections as the persist middleware restores them (lines 445-451) *)
(* and the remote store as some earlier session left it.                  *)
(***************************************************************************)
NoteData == [userId |-> CurrentUser, type |-> "note", isFavorite |-> FALSE,
             collections |-> <<1>>]
LinkData == [userId |-> CurrentUser, type |-> "link"]
AlbumData == [userId |-> CurrentUser, name |-> "a", contentCount |-> 1]

\* an empty remote store, or one with a note that is in the album and a
\* newer link that is not
InitRemotes ==
    {[content |-> <<>>, collections |-> <<>>,
      nextId |-> [content |-> 1, collection |-> 1]],
     [content |-> <<Doc(2, LinkData), Doc(1, NoteData)>>,
      collections |-> <<Doc(1, AlbumData)>>,
      nextId |-> [content |-> 3, collection |-> 2]]}

PersistedSelections ==
    {[content |-> NULL, collection |-> NULL],
     [content |-> WithId(convertToContent(NoteData, 0), 1),
      collection |-> [convertToCollection(AlbumData) EXCEPT !.id = 1]]}

Init ==
    /\ allContent = <<>>
    /\ contentByType = EmptyBuckets
    /\ collections = <<>>
    /\ \E p \in PersistedSelections :
        /\ selectedContent = p.content
        /\ selectedCollection = p.collection
    /\ isLoading = FALSE
    /\ error = NULL
    /\ contentUnsubscribe = NoHandle
    /\ collectionsUnsubscribe = NoHandle
    /\ \E r \in InitRemotes :
        /\ remoteContent = r.content
        /\ remoteCollections = r.collections
        /\ nextId = r.nextId
    /\ liveContent = {}
    /\ liveCollections = {}
    /\ dueContent = {}
    /\ dueCollections = {}
    /\ tasks = [t \in Tasks |-> Idle]
    /\ calls = 0
    /\ lastOp = Op("construct", 0, "none", NULL, <<>>)

(***************************************************************************)
(* initialize / cleanup and the subscription callbacks.                   *)
(***************************************************************************)
LiveHandles(live) == {l.h : l \in live}
HandleFree(live, stored, h) == h \notin LiveHandles(live) \cup {stored}
FreeHandle(live, stored) ==
    CHOOSE h \in Handles :
        /\ HandleFree(live, stored, h)
        /\ \A g \in 1..(h - 1) : ~HandleFree(live, stored, g)

\* initialize (lines 83-118): no await, so one step.  onSnapshot attaches
\* the listener and owes it the initial snapshot.
initialize(userId) ==
    /\ \E h \in Handles : HandleFree(liveContent, contentUnsubscribe, h)
    /\ \E h \in Handles : HandleFree(liveCollections, collectionsUnsubscribe, h)
    /\ LET hc == FreeHandle(liveContent, contentUnsubscribe)
           hk == FreeHandle(liveCollections, collectionsUnsubscribe)
       IN /\ isLoading' = TRUE
          /\ error' = NULL
          /\ liveContent' = liveContent \cup {[h |-> hc, userId |-> userId]}
          /\ liveCollections' = liveCollections \cup {[h |-> hk, userId |-> userId]}
          /\ dueContent' = dueContent \cup {hc}
          /\ dueCollections' = dueCollections \cup {hk}
          /\ contentUnsubscribe' = hc
          /\ collectionsUnsubscribe' = hk
          /\ lastOp' = Op("initialize", 0, "ok", <<hc, hk>>, <<>>)
    /\ UNCHANGED <<heapVars, collectionData, remoteVars, calls>>

\* the unsubscribe function onSnapshot returned for handle h
Unsubscribe(live, h) == {l \in live : l.h # h}

\* the handles cleanup calls: each stored one
CleanupCalls ==
    (IF contentUnsubscribe # NoHandle
     THEN <<[kind |-> "content", h |-> contentUnsubscribe]>> ELSE <<>>)
    \o (IF collectionsUnsubscribe # NoHandle
        THEN <<[kind |-> "collections", h |-> collectionsUnsubscribe]>> ELSE <<>>)

\* a cleanup that calls the handles and keeps them stored
cleanupKeepingHandles ==
    /\ liveContent' = IF contentUnsubscribe # NoHandle
                      THEN Unsubscribe(liveContent, contentUnsubscribe)
                      ELSE liveContent
    /\ liveCollections' = IF collectionsUnsubscribe # NoHandle
                          THEN Unsubscribe(liveCollections, collectionsUnsubscribe)
                          ELSE liveCollections
    /\ dueContent' = dueContent \cap LiveHandles(liveContent')
    /\ dueCollections' = dueCollections \cap LiveHandles(liveCollections')
    /\ lastOp' = Op("cleanup", 0, "ok", CleanupCalls, <<>>)
    /\ UNCHANGED <<heapVars, collectionData, storeFlags, remoteVars, calls,
                   contentUnsubscribe, collectionsUnsubscribe>>

\* cleanup (lines 121-126); lastOp.value lists the handles it called
cleanup ==
    /\ liveContent' = IF contentUnsubscribe # NoHandle
                      THEN Unsubscribe(liveContent, contentUnsubscribe)
                      ELSE liveContent
    /\ liveCollections' = IF collectionsUnsubscribe # NoHandle
                          THEN Unsubscribe(liveCollections, collectionsUnsubscribe)
                          ELSE liveCollections
    /\ dueContent' = dueContent \cap LiveHandles(liveContent')
    /\ dueCollections' = dueCollections \cap LiveHandles(liveCollections')
    /\ contentUnsubscribe' = NoHandle
    /\ collectionsUnsubscribe' = NoHandle
    /\ lastOp' = Op("cleanup", 0, "ok", CleanupCalls, <<>>)
    /\ UNCHANGED <<heapVars, collectionData, storeFlags, remoteVars, calls>>

\* subscribeToUserContent's snapshot handler (content-service.ts 355-363):
\* the documents of the query, converted; the handler throws, and never
\* reaches callback(content), if one of them does not convert
SnapshotThrows(userId) ==
    LET docs == QueryByUser(remoteContent, userId)
    IN \E i \in DOMAIN docs : convertToContent(docs[i].data, 0) = Throws

SnapshotContent(userId) ==
    LET docs == QueryByUser(remoteContent, userId)
    IN [i \in DOMAIN docs |->
            WithId(convertToContent(docs[i].data, FreshRef(i)), docs[i].id)]

\* a callback that stores the content and leaves isLoading as it is
contentCallbackStillLoading(content) ==
    /\ Store([Heap EXCEPT !.allContent = content,
                          !.contentByType = GroupByType(content)])
    /\ isLoading' = isLoading

\* the content subscription callback (lines 88-106)
contentCallback(content) ==
    /\ Store([Heap EXCEPT !.allContent = content,
                          !.contentByType = GroupByType(content)])
    /\ isLoading' = FALSE

\* a snapshot handler that leaves out the documents that do not convert and
\* hands the rest to the callback
pushContentSkipping(l) ==
    /\ l \in liveContent
    /\ l.h \in dueContent
    /\ dueContent' = dueContent \ {l.h}
    /\ LET docs == SelectSeq(QueryByUser(remoteContent, l.userId),
                             LAMBDA d : d.data.type \in ContentTypes)
           content == [i \in DOMAIN docs |->
                        WithId(convertToContent(docs[i].data, FreshRef(i)), docs[i].id)]
       IN /\ contentCallback(content)
          /\ lastOp' = Op("pushContent", 0, "ok", StripSeq(content), <<>>)
    /\ UNCHANGED <<collectionData, error, contentUnsubscribe, collectionsUnsubscribe,
                   liveContent, liveCollections, dueCollections, remoteVars, calls>>

\* a content snapshot is delivered to listener l
pushContent(l) ==
    /\ l \in liveContent
    /\ l.h \in dueContent
    /\ dueContent' = dueContent \ {l.h}
    /\ IF SnapshotThrows(l.userId)
       THEN /\ UNCHANGED <<heapVars, isLoading>>
            /\ lastOp' = Op("pushContent", 0, "thrown", NULL, <<>>)
       ELSE LET content == SnapshotContent(l.userId)
            IN /\ contentCallback(content)
               /\ lastOp' = Op("pushContent", 0, "ok", StripSeq(content), <<>>)
    /\ UNCHANGED <<collectionData, error, contentUnsubscribe, collectionsUnsubscribe,
                   liveContent, liveCollections, dueCollections, remoteVars, calls>>

SnapshotCollections(userId) ==
    LET docs == QueryByUser(remoteCollections, userId)
    IN [i \in DOMAIN docs |->
            [convertToCollection(docs[i].data) EXCEPT !.id = docs[i].id]]

\* the collections subscription callback (lines 109-111)
collectionsCallback(colls) ==
    /\ collections' = colls
    /\ isLoading' = FALSE

pushCollections(l) ==
    /\ l \in liveCollections
    /\ l.h \in dueCollections
    /\ dueCollections' = dueCollections \ {l.h}
    /\ LET colls == SnapshotCollections(l.userId)
       IN /\ collectionsCallback(colls)
          /\ lastOp' = Op("pushCollections", 0, "ok", colls, <<>>)
    /\ UNCHANGED <<heapVars, selectedCollection, error, contentUnsubscribe,
                   collectionsUnsubscribe, liveContent, liveCollections, dueContent,
                   remoteVars, calls>>

(***************************************************************************)
(* Selection (lines 170-191).  An identifier of 0 is the null argument.   *)
(***************************************************************************)
\* a selection that stays as it is when the identifier is not found
selectContentIfFound(contentId) ==
    /\ Store([Heap EXCEPT !.selectedContent =
                IF contentId = 0 THEN NULL
                ELSE IF FindById(allContent, contentId) = NULL THEN @
                     ELSE FindById(allContent, contentId)])
    /\ lastOp' = Op("selectContent", 0, "ok", contentId, <<>>)
    /\ UNCHANGED <<collectionData, storeFlags, subsVars, remoteVars, calls>>

selectContent(contentId) ==
    /\ Store([Heap EXCEPT !.selectedContent =
                IF contentId = 0 THEN NULL ELSE FindById(allContent, contentId)])
    /\ lastOp' = Op("selectContent", 0, "ok", contentId, <<>>)
    /\ UNCHANGED <<collectionData, storeFlags, subsVars, remoteVars, calls>>

selectCollection(collectionId) ==
    /\ selectedCollection' = IF collectionId = 0 THEN NULL
                             ELSE FindById(collections, collectionId)
    /\ lastOp' = Op("selectCollection", 0, "ok", collectionId, <<>>)
    /\ UNCHANGED <<heapVars, collections, storeFlags, subsVars, remoteVars, calls>>

(***************************************************************************)
(* Steps shared by the store operations.                                  *)
(***************************************************************************)
\* every listener of the query is owed a snapshot after a remote change
NotifyContent == dueContent' = LiveHandles(liveContent)
NotifyCollections == dueCollections' = LiveHandles(liveCollections)

\* a catch block that stops loading but does not record the error
storeCatchUnrecorded(t, err) ==
    /\ error' = error
    /\ isLoading' = FALSE
    /\ Store([Heap EXCEPT !.tasks = Finish(t)])
    /\ lastOp' = Ended(t, "thrown", err)
    /\ UNCHANGED <<collectionData, subsVars, remoteVars, calls>>

\* the catch block of a mutation: set({ error, isLoading: false }); throw error.
\* (addToCollection / removeFromCollection catch it once more, set({ error })
\* again and re-throw.)
storeCatch(t, err) ==
    /\ error' = err
    /\ isLoading' = FALSE
    /\ Store([Heap EXCEPT !.tasks = Finish(t)])
    /\ lastOp' = Ended(t, "thrown", err)
    /\ UNCHANGED <<collectionData, subsVars, remoteVars, calls>>

\* a step of the Gateway that the store does not see
gatewayStep(newTasks) ==
    /\ Store([Heap EXCEPT !.tasks = newTasks])
    /\ lastOp' = Step
    /\ UNCHANGED <<collectionData, storeFlags, contentUnsubscribe,
                   collectionsUnsubscribe, liveContent, liveCollections, calls>>

\* an operation begins: set({ isLoading: true, error: null }) and its await
begin(newTasks) ==
    /\ calls' = calls + 1
    /\ isLoading' = TRUE
    /\ error' = NULL
    /\ Store([Heap EXCEPT !.tasks = newTasks])
    /\ lastOp' = Step
    /\ UNCHANGED <<collectionData, subsVars, remoteVars>>

(***************************************************************************)
(* loadContent (lines 129-155) and getUserContent (content-service        *)
(* 300-319): the listing without a subscription.                          *)
(***************************************************************************)
loadContent(t, userId) ==
    /\ CanCall(t)
    /\ begin(Suspend(t, "loadContent", "getDocs", 0, 0, NULL, [userId |-> userId],
                     <<>>, <<"getUserContent">>))

\* docs.map(convertToContent) throws when one of the documents does not convert
ListingThrows(docs) == \E i \in DOMAIN docs : convertToContent(docs[i].data, 0) = Throws

ListedContent(docs) ==
    [i \in DOMAIN docs |->
        WithId(convertToContent(docs[i].data, FreshRef(i)), docs[i].id)]

\* getDocs answers with the documents of the query: getUserContent resolves
\* with them, or rejects when one of them is of an unknown kind
GatewayGetDocs(t) ==
    /\ tasks[t].pc = "getDocs"
    /\ LET docs == QueryByUser(remoteContent, tasks[t].data.userId)
       IN gatewayStep(At(t, "listed",
                         IF ListingThrows(docs) THEN Err("UnknownKind", t)
                         ELSE [docs |-> docs],
                         tasks[t].gw))
    /\ UNCHANGED <<dueContent, dueCollections, remoteVars>>

\* getDocs is refused by the transport: getUserContent rejects
GatewayGetDocsFails(t) ==
    /\ tasks[t].pc = "getDocs"
    /\ gatewayStep(At(t, "listed", Err("Transport", t), tasks[t].gw))
    /\ UNCHANGED <<dueContent, dueCollections, remoteVars>>

\* loadContent continues after its await: lines 134-150, or the catch block
\* of lines 151-154, which does not re-throw
ResumeLoadContent(t) ==
    /\ tasks[t].pc = "listed"
    /\ IF Has(tasks[t].data, "kind")
       THEN /\ error' = tasks[t].data
            /\ Store([Heap EXCEPT !.tasks = Finish(t)])
            /\ lastOp' = Ended(t, "ok", tasks[t].data)
       ELSE LET content == ListedContent(tasks[t].data.docs)
            IN /\ error' = error
               /\ Store([Heap EXCEPT !.allContent = content,
                                     !.contentByType = GroupByType(content),
                                     !.tasks = Finish(t)])
               /\ lastOp' = Ended(t, "ok", StripSeq(content))
    /\ isLoading' = FALSE
    /\ UNCHANGED <<collectionData, subsVars, remoteVars, calls>>

(***************************************************************************)
(* Another client of the remote store, built with a content kind this     *)
(* build does not have, creates a document of that kind for the user.     *)
(***************************************************************************)
ForeignData == [userId |-> CurrentUser, type |-> "video"]

foreignCreate ==
    /\ nextId.content <= MaxContent + 1
    /\ remoteContent' = <<Doc(nextId.content, ForeignData)>> \o remoteContent
    /\ nextId' = [nextId EXCEPT !.content = @ + 1]
    /\ NotifyContent
    /\ lastOp' = Step
    /\ UNCHANGED <<heapVars, collectionData, storeFlags, contentUnsubscribe,
                   collectionsUnsubscribe, liveContent, liveCollections,
                   dueCollections, remoteCollections, calls>>

(***************************************************************************)
(* addContent (lines 194-214) and createContent (content-service 223-241) *)
(***************************************************************************)
addContent(t, content) ==
    /\ CanCall(t)
    /\ LET contentData == convertFromContent(content)
       IN IF contentData = Throws
          THEN /\ calls' = calls + 1
               /\ isLoading' = FALSE
               /\ error' = Err("UnknownKind", t)
               /\ lastOp' = Returned("addContent", t, "thrown", Err("UnknownKind", t), 0, 0)
               /\ UNCHANGED <<heapVars, collectionData, subsVars, remoteVars>>
          ELSE begin(Suspend(t, "addContent", "addDoc", 0, 0, NULL,
                             contentData.data, <<>>, <<"createContent">>))

\* addDoc commits: the remote store assigns the identifier and stamps createdAt
GatewayAddDoc(t) ==
    /\ tasks[t].pc = "addDoc"
    /\ nextId.content <= MaxContent
    /\ remoteContent' = <<Doc(nextId.content, tasks[t].data)>> \o remoteContent
    /\ nextId' = [nextId EXCEPT !.content = @ + 1]
    /\ NotifyContent
    /\ gatewayStep([tasks EXCEPT ![t].pc = "created", ![t].contentId = nextId.content])
    /\ UNCHANGED <<dueCollections, remoteCollections>>

\* an update that puts the created item first
PrependedContent(heap, newContent) ==
    [heap EXCEPT !.allContent = <<newContent>> \o @,
                 !.contentByType =
                    [@ EXCEPT ![newContent.type] = <<newContent>> \o @]]

\* lines 200-208: the optimistic append of the created item
AppendedContent(heap, newContent) ==
    [heap EXCEPT !.allContent = Append(@, newContent),
                 !.contentByType =
                    [@ EXCEPT ![newContent.type] = Append(@, newContent)]]

\* getDoc(contentRef) answers and addContent continues after its await
ResumeAddContent(t) ==
    /\ tasks[t].pc = "created"
    /\ IF ~HasDoc(remoteContent, tasks[t].contentId)
       THEN storeCatch(t, Err("CreateFailed", t))
       ELSE LET converted == convertToContent(DataOf(remoteContent, tasks[t].contentId),
                                              FreshRef(1))
            IN IF converted = Throws
               THEN storeCatch(t, Err("UnknownKind", t))
               ELSE LET newContent == WithId(converted, tasks[t].contentId)
                    IN /\ Store(AppendedContent([Heap EXCEPT !.tasks = Finish(t)],
                                                newContent))
                       /\ isLoading' = FALSE
                       /\ lastOp' = Ended(t, "ok", Strip(newContent))
                       /\ UNCHANGED <<collectionData, error, subsVars, remoteVars, calls>>

(***************************************************************************)
(* editContent (lines 217-255) and updateContent (content-service 265-286)*)
(***************************************************************************)
\* await updateContent(contentId, updates)
AwaitUpdateContent(t, op, contentId, collectionId, updates, captured) ==
    Suspend(t, op, "getDoc", contentId, collectionId, updates, NULL, captured,
            <<"updateContent">>)

editContent(t, contentId, updates) ==
    /\ CanCall(t)
    /\ begin(AwaitUpdateContent(t, "editContent", contentId, 0, updates, <<>>))

\* the stored data as the Content it is spread into
ContentOfData(docData) ==
    IF Has(docData, "collections")
    THEN [docData EXCEPT !.collections = Arr(0, @)]
    ELSE docData

\* updateContent lines 274-279: updatedData, built from the document read
UpdatedData(currentData, content) ==
    LET converted == convertFromContent(Merge(ContentOfData(currentData), content))
    IN IF converted = Throws THEN Throws
       ELSE [data |-> Merge(currentData, converted.data),
             stampCreatedAt |-> converted.stampCreatedAt]

\* updateContent lines 268-279: getDoc answers
GatewayGetDoc(t) ==
    /\ tasks[t].pc = "getDoc"
    /\ IF ~HasDoc(remoteContent, tasks[t].contentId)
       THEN storeCatch(t, Err("NotFound", t))
       ELSE LET updatedData == UpdatedData(DataOf(remoteContent, tasks[t].contentId),
                                           tasks[t].updates)
            IN IF updatedData = Throws
               THEN storeCatch(t, Err("UnknownKind", t))
               ELSE /\ gatewayStep(At(t, "updateDoc", updatedData, tasks[t].gw))
                    /\ UNCHANGED <<dueContent, dueCollections, remoteVars>>

\* updateDoc writes the fields of updatedData into the document; a stamped
\* createdAt makes it the newest
UpdatedDocs(docs, id, updatedData) ==
    LET doc == Doc(id, Merge(DataOf(docs, id), updatedData.data))
    IN IF updatedData.stampCreatedAt
       THEN <<doc>> \o WithoutDoc(docs, id)
       ELSE [i \in DOMAIN docs |-> IF docs[i].id = id THEN doc ELSE docs[i]]

\* updateContent line 281: updateDoc commits, or is refused for a missing document
GatewayUpdateDoc(t) ==
    /\ tasks[t].pc = "updateDoc"
    /\ IF ~HasDoc(remoteContent, tasks[t].contentId)
       THEN storeCatch(t, Err("NotFound", t))
       ELSE /\ remoteContent' = UpdatedDocs(remoteContent, tasks[t].contentId, tasks[t].data)
            /\ NotifyContent
            /\ gatewayStep(At(t, "updated", NULL, tasks[t].gw))
            /\ UNCHANGED <<dueCollections, remoteCollections, nextId>>

\* lines 223-249: the store after editContent's optimistic update
EditedItem(item, id, updates) ==
    IF item.id = id THEN Merge(item, updates) ELSE item

\* a merge into whatever is selected
EditedAnySelected(selected, id, updates) ==
    IF selected # NULL THEN Merge(selected, updates) ELSE selected

EditedSelected(selected, id, updates) ==
    IF selected # NULL /\ selected.id = id THEN Merge(selected, updates) ELSE selected

\* an update that merges into the selection whether or not the flat list
\* has the item
EditedContentOrSelection(heap, contentId, updates) ==
    [heap EXCEPT
        !.allContent = Map(@, LAMBDA item : EditedItem(item, contentId, updates)),
        !.contentByType =
            [k \in ContentTypes |->
                Map(@[k], LAMBDA item : EditedItem(item, contentId, updates))],
        !.selectedContent = EditedSelected(@, contentId, updates)]

EditedContent(heap, contentId, updates) ==
    LET updatedAll == Map(heap.allContent,
                          LAMBDA item : EditedItem(item, contentId, updates))
        itemToUpdate == FindById(heap.allContent, contentId)
    IN IF itemToUpdate # NULL
       THEN [heap EXCEPT
                !.allContent = updatedAll,
                !.contentByType =
                    [@ EXCEPT ![itemToUpdate.type] =
                        Map(@, LAMBDA item : EditedItem(item, contentId, updates))],
                !.selectedContent = EditedSelected(@, contentId, updates)]
       ELSE heap

\* isLoading after lines 223-249: set to false only inside if (itemToUpdate)
LoadingAfter(id) == IF FindById(allContent, id) # NULL THEN FALSE ELSE isLoading

(***************************************************************************)
(* editCollection (lines 333-359), updateCollection (content-service      *)
(* 422-435)                                                               *)
(***************************************************************************)
AwaitUpdateCollection(t, op, collectionId, updates) ==
    Suspend(t, op, "updateCollDoc", tasks[t].contentId, collectionId, updates, NULL,
            <<>>, Append(tasks[t].gw, "updateCollection"))

editCollection(t, collectionId, updates) ==
    /\ CanCall(t)
    /\ begin(AwaitUpdateCollection(t, "editCollection", collectionId, updates))

\* a count write that decrements whatever the count is
CountUpdateUnguarded(op, captured, collectionId) ==
    LET collection == FindById(captured, collectionId)
    IN IF collection = NULL THEN NULL
       ELSE IF op = "addToCollection"
            THEN [contentCount |-> collection.contentCount + 1]
            ELSE [contentCount |-> collection.contentCount - 1]

\* lines 403-409 / 431-437: the count write that follows the membership write.
\* collection is looked up in the collections read when the operation began.
CountUpdate(op, captured, collectionId) ==
    LET collection == FindById(captured, collectionId)
    IN IF collection = NULL THEN NULL
       ELSE IF op = "addToCollection"
            THEN [contentCount |-> collection.contentCount + 1]
            ELSE IF collection.contentCount > 0
                 THEN [contentCount |-> collection.contentCount - 1]
                 ELSE NULL

\* editContent continues after its await; add/removeFromCollection go on to
\* the count write
ResumeEditContent(t) ==
    /\ tasks[t].pc = "updated"
    /\ LET edited == EditedContent(Heap, tasks[t].contentId, tasks[t].updates)
           count == CountUpdate(tasks[t].op, tasks[t].captured, tasks[t].collectionId)
       IN IF tasks[t].op \in {"addToCollection", "removeFromCollection"} /\ count # NULL
          THEN /\ Store([edited EXCEPT !.tasks =
                            AwaitUpdateCollection(t, tasks[t].op,
                                                  tasks[t].collectionId, count)])
               /\ isLoading' = TRUE
               /\ error' = NULL
               /\ lastOp' = Step
          ELSE /\ Store([edited EXCEPT !.tasks = Finish(t)])
               /\ isLoading' = LoadingAfter(tasks[t].contentId)
               /\ error' = error
               /\ lastOp' = Ended(t, "ok", NULL)
    /\ UNCHANGED <<collectionData, subsVars, remoteVars, calls>>

\* updateDoc on the collection commits, or is refused for a missing document
GatewayUpdateCollDoc(t) ==
    /\ tasks[t].pc = "updateCollDoc"
    /\ IF ~HasDoc(remoteCollections, tasks[t].collectionId)
       THEN storeCatch(t, Err("NotFound", t))
       ELSE /\ remoteCollections' =
                    UpdatedDocs(remoteCollections, tasks[t].collectionId,
                                [data |-> tasks[t].updates, stampCreatedAt |-> FALSE])
            /\ NotifyCollections
            /\ gatewayStep(At(t, "collUpdated", NULL, tasks[t].gw))
            /\ UNCHANGED <<dueContent, remoteContent, nextId>>

ResumeEditCollection(t) ==
    /\ tasks[t].pc = "collUpdated"
    /\ collections' = Map(collections,
                          LAMBDA item : EditedItem(item, tasks[t].collectionId,
                                                   tasks[t].updates))
    /\ selectedCollection' = EditedSelected(selectedCollection, tasks[t].collectionId,
                                            tasks[t].updates)
    /\ isLoading' = FALSE
    /\ Store([Heap EXCEPT !.tasks = Finish(t)])
    /\ lastOp' = Ended(t, "ok", NULL)
    /\ UNCHANGED <<error, subsVars, remoteVars, calls>>

(***************************************************************************)
(* removeContent (lines 258-291), deleteContent (content-service 289-297) *)
(***************************************************************************)
removeContent(t, contentId) ==
    /\ CanCall(t)
    /\ begin(Suspend(t, "removeContent", "deleteDoc", contentId, 0, NULL, NULL,
                     <<>>, <<"deleteContent">>))

\* deleteDoc commits (deleting a missing document succeeds)
GatewayDeleteDoc(t) ==
    /\ tasks[t].pc = "deleteDoc"
    /\ remoteContent' = WithoutDoc(remoteContent, tasks[t].contentId)
    /\ dueContent' = IF HasDoc(remoteContent, tasks[t].contentId)
                     THEN LiveHandles(liveContent) ELSE dueContent
    /\ gatewayStep(At(t, "deleted", NULL, tasks[t].gw))
    /\ UNCHANGED <<dueCollections, remoteCollections, nextId>>

\* lines 264-285: the store after removeContent's optimistic update
RemovedContent(heap, contentId) ==
    LET itemToRemove == FindById(heap.allContent, contentId)
        updatedAll == Filter(heap.allContent, LAMBDA item : item.id # contentId)
    IN IF itemToRemove # NULL
       THEN [heap EXCEPT
                !.allContent = updatedAll,
                !.contentByType =
                    [@ EXCEPT ![itemToRemove.type] =
                        Filter(@, LAMBDA item : item.id # contentId)],
                !.selectedContent =
                    IF @ # NULL /\ @.id = contentId THEN NULL ELSE @]
       ELSE heap

ResumeRemoveContent(t) ==
    /\ tasks[t].pc = "deleted"
    /\ Store([RemovedContent(Heap, tasks[t].contentId) EXCEPT !.tasks = Finish(t)])
    /\ isLoading' = LoadingAfter(tasks[t].contentId)
    /\ lastOp' = Ended(t, "ok", NULL)
    /\ UNCHANGED <<collectionData, error, subsVars, remoteVars, calls>>

(***************************************************************************)
(* toggleFavorite (lines 294-301)                                         *)
(***************************************************************************)
\* an operation that returns without a Gateway call and without a set()
returnsAtOnce(t, op, contentId, collectionId) ==
    /\ calls' = calls + 1
    /\ lastOp' = Returned(op, t, "ok", NULL, contentId, collectionId)
    /\ UNCHANGED <<heapVars, collectionData, storeFlags, subsVars, remoteVars>>

\* a toggle that sends the value it read
toggleFavoriteAsRead(t, contentId) ==
    /\ CanCall(t)
    /\ LET content == FindById(allContent, contentId)
       IN IF content # NULL
          THEN begin(AwaitUpdateContent(t, "toggleFavorite", contentId, 0,
                                        [isFavorite |-> content.isFavorite], <<>>))
          ELSE returnsAtOnce(t, "toggleFavorite", contentId, 0)

toggleFavorite(t, contentId) ==
    /\ CanCall(t)
    /\ LET content == FindById(allContent, contentId)
       IN IF content # NULL
          THEN begin(AwaitUpdateContent(t, "toggleFavorite", contentId, 0,
                                        [isFavorite |-> ~content.isFavorite], <<>>))
          ELSE returnsAtOnce(t, "toggleFavorite", contentId, 0)

\* toggleContentPublic (lines 304-311)
toggleContentPublic(t, contentId) ==
    /\ CanCall(t)
    /\ LET content == FindById(allContent, contentId)
       IN IF content # NULL
          THEN begin(AwaitUpdateContent(t, "toggleContentPublic", contentId, 0,
                                        [isPublic |-> ~content.isPublic], <<>>))
          ELSE returnsAtOnce(t, "toggleContentPublic", contentId, 0)

(***************************************************************************)
(* addCollection (lines 314-330), createCollection (content-service       *)
(* 369-398)                                                               *)
(***************************************************************************)
\* createCollection lines 371-381
CollectionData(collection) ==
    [userId |-> collection.userId,
     name |-> collection.name,
     contentCount |-> Get(collection, "contentCount", 0)]

addCollection(t, collection) ==
    /\ CanCall(t)
    /\ begin(Suspend(t, "addCollection", "addCollDoc", 0, 0, NULL,
                     CollectionData(collection), <<>>, <<"createCollection">>))

GatewayAddCollDoc(t) ==
    /\ tasks[t].pc = "addCollDoc"
    /\ nextId.collection <= MaxCollections
    /\ remoteCollections' = <<Doc(nextId.collection, tasks[t].data)>> \o remoteCollections
    /\ nextId' = [nextId EXCEPT !.collection = @ + 1]
    /\ NotifyCollections
    /\ gatewayStep([tasks EXCEPT ![t].pc = "collCreated",
                                 ![t].collectionId = nextId.collection])
    /\ UNCHANGED <<dueContent, remoteContent>>

ResumeAddCollection(t) ==
    /\ tasks[t].pc = "collCreated"
    /\ IF ~HasDoc(remoteCollections, tasks[t].collectionId)
       THEN storeCatch(t, Err("CreateFailed", t))
       ELSE LET newCollection ==
                    [convertToCollection(DataOf(remoteCollections, tasks[t].collectionId))
                        EXCEPT !.id = tasks[t].collectionId]
            IN /\ collections' = Append(collections, newCollection)
               /\ isLoading' = FALSE
               /\ Store([Heap EXCEPT !.tasks = Finish(t)])
               /\ lastOp' = Ended(t, "ok", newCollection)
               /\ UNCHANGED <<selectedCollection, error, subsVars, remoteVars, calls>>

(***************************************************************************)
(* removeCollection (lines 362-384), deleteCollection (content-service    *)
(* 438-446)                                                               *)
(***************************************************************************)
removeCollection(t, collectionId) ==
    /\ CanCall(t)
    /\ begin(Suspend(t, "removeCollection", "deleteCollDoc", 0, collectionId, NULL,
                     NULL, <<>>, <<"deleteCollection">>))

GatewayDeleteCollDoc(t) ==
    /\ tasks[t].pc = "deleteCollDoc"
    /\ remoteCollections' = WithoutDoc(remoteCollections, tasks[t].collectionId)
    /\ dueCollections' = IF HasDoc(remoteCollections, tasks[t].collectionId)
                         THEN LiveHandles(liveCollections) ELSE dueCollections
    /\ gatewayStep(At(t, "collDeleted", NULL, tasks[t].gw))
    /\ UNCHANGED <<dueContent, remoteContent, nextId>>

\* a removeCollection that leaves the selection as it is
ResumeRemoveCollectionKeepingSelection(t) ==
    /\ tasks[t].pc = "collDeleted"
    /\ collections' = Filter(collections, LAMBDA item : item.id # tasks[t].collectionId)
    /\ selectedCollection' = selectedCollection
    /\ isLoading' = FALSE
    /\ Store([Heap EXCEPT !.tasks = Finish(t)])
    /\ lastOp' = Ended(t, "ok", NULL)
    /\ UNCHANGED <<error, subsVars, remoteVars, calls>>

ResumeRemoveCollection(t) ==
    /\ tasks[t].pc = "collDeleted"
    /\ collections' = Filter(collections, LAMBDA item : item.id # tasks[t].collectionId)
    /\ selectedCollection' =
            IF selectedCollection # NULL /\ selectedCollection.id = tasks[t].collectionId
            THEN NULL ELSE selectedCollection
    /\ isLoading' = FALSE
    /\ Store([Heap EXCEPT !.tasks = Finish(t)])
    /\ lastOp' = Ended(t, "ok", NULL)
    /\ UNCHANGED <<error, subsVars, remoteVars, calls>>

(***************************************************************************)
(* addToCollection (lines 387-415), removeFromCollection (lines 418-443)  *)
(***************************************************************************)
\* updatedCollections.push(collectionId) on the array with identity ref:
\* every holder of that array sees the new element
PushedItem(item, ref, x) ==
    IF item.collections.ref = ref
    THEN [item EXCEPT !.collections.val = Append(@, x)]
    ELSE item

PushedInPlace(heap, ref, x) ==
    [allContent |-> Map(heap.allContent, LAMBDA item : PushedItem(item, ref, x)),
     contentByType |-> [k \in ContentTypes |->
                            Map(heap.contentByType[k],
                                LAMBDA item : PushedItem(item, ref, x))],
     selectedContent |-> IF heap.selectedContent = NULL THEN NULL
                         ELSE PushedItem(heap.selectedContent, ref, x),
     tasks |-> [t \in Tasks |->
                    IF HoldsArray(heap.tasks[t].updates)
                    THEN [heap.tasks[t] EXCEPT !.updates = PushedItem(@, ref, x)]
                    ELSE heap.tasks[t]]]

\* a catch block that throws without recording the error
membershipCatchUnrecorded(t, op, err, contentId, collectionId) ==
    /\ calls' = calls + 1
    /\ lastOp' = Returned(op, t, "thrown", err, contentId, collectionId)
    /\ UNCHANGED <<heapVars, collectionData, storeFlags, subsVars, remoteVars>>

\* the catch block of lines 410-414 / 438-442 for a failure before any await
membershipCatch(t, op, err, contentId, collectionId) ==
    /\ calls' = calls + 1
    /\ error' = err
    /\ lastOp' = Returned(op, t, "thrown", err, contentId, collectionId)
    /\ UNCHANGED <<heapVars, collectionData, isLoading, subsVars, remoteVars>>

\* an addToCollection that appends and writes the membership whether or not
\* the item lists the collection
addToCollectionAgain(t, contentId, collectionId) ==
    /\ CanCall(t)
    /\ LET content == FindById(allContent, contentId)
       IN IF content = NULL
          THEN membershipCatch(t, "addToCollection", Err("ContentNotFound", t),
                               contentId, collectionId)
          ELSE LET updatedCollections == content.collections
                   pushed == PushedInPlace(Heap, updatedCollections.ref, collectionId)
               IN /\ calls' = calls + 1
                  /\ isLoading' = TRUE
                  /\ error' = NULL
                  /\ Store([pushed EXCEPT !.tasks[t] =
                        [op |-> "addToCollection", pc |-> "getDoc",
                         contentId |-> contentId,
                         collectionId |-> collectionId,
                         updates |->
                            [collections |->
                                Arr(updatedCollections.ref,
                                    Append(updatedCollections.val, collectionId))],
                         data |-> NULL, captured |-> collections,
                         gw |-> <<"updateContent">>]])
                  /\ lastOp' = Step
                  /\ UNCHANGED <<collectionData, subsVars, remoteVars>>

addToCollection(t, contentId, collectionId) ==
    /\ CanCall(t)
    /\ LET content == FindById(allContent, contentId)
       IN IF content = NULL
          THEN membershipCatch(t, "addToCollection", Err("ContentNotFound", t),
                               contentId, collectionId)
          ELSE LET updatedCollections == content.collections
               IN IF ~Includes(updatedCollections.val, collectionId)
                  THEN \* push, then await editContent(contentId, { collections })
                       LET pushed == PushedInPlace(Heap, updatedCollections.ref,
                                                   collectionId)
                       IN /\ calls' = calls + 1
                          /\ isLoading' = TRUE
                          /\ error' = NULL
                          /\ Store([pushed EXCEPT !.tasks[t] =
                                [op |-> "addToCollection", pc |-> "getDoc",
                                 contentId |-> contentId,
                                 collectionId |-> collectionId,
                                 updates |->
                                    [collections |->
                                        Arr(updatedCollections.ref,
                                            Append(updatedCollections.val, collectionId))],
                                 data |-> NULL, captured |-> collections,
                                 gw |-> <<"updateContent">>]])
                          /\ lastOp' = Step
                          /\ UNCHANGED <<collectionData, subsVars, remoteVars>>
                  ELSE \* already a member: straight to the count write
                       LET count == CountUpdate("addToCollection", collections, collectionId)
                       IN IF count # NULL
                          THEN begin([AwaitUpdateCollection(t, "addToCollection",
                                                            collectionId, count)
                                        EXCEPT ![t].contentId = contentId])
                          ELSE returnsAtOnce(t, "addToCollection", contentId, collectionId)

\* a removeFromCollection that writes the membership list as it found it
removeFromCollectionKeeping(t, contentId, collectionId) ==
    /\ CanCall(t)
    /\ LET content == FindById(allContent, contentId)
       IN IF content = NULL
          THEN membershipCatch(t, "removeFromCollection", Err("ContentNotFound", t),
                               contentId, collectionId)
          ELSE LET updatedCollections == Arr(FreshRef(1), content.collections.val)
               IN begin(AwaitUpdateContent(t, "removeFromCollection", contentId,
                                           collectionId,
                                           [collections |-> updatedCollections],
                                           collections))

removeFromCollection(t, contentId, collectionId) ==
    /\ CanCall(t)
    /\ LET content == FindById(allContent, contentId)
       IN IF content = NULL
          THEN membershipCatch(t, "removeFromCollection", Err("ContentNotFound", t),
                               contentId, collectionId)
          ELSE LET updatedCollections ==
                        Arr(FreshRef(1),
                            Filter(content.collections.val, LAMBDA id : id # collectionId))
               IN begin(AwaitUpdateContent(t, "removeFromCollection", contentId,
                                           collectionId,
                                           [collections |-> updatedCollections],
                                           collections))

(***************************************************************************)
(* A Gateway call is refused by the transport: the pending await throws   *)
(* and the operation's catch block runs.                                  *)
(***************************************************************************)
AwaitingGateway(t) ==
    tasks[t].pc \in {"addDoc", "created", "getDoc", "updateDoc", "deleteDoc",
                     "addCollDoc", "collCreated", "updateCollDoc", "deleteCollDoc"}

GatewayFails(t) ==
    /\ AwaitingGateway(t)
    /\ storeCatch(t, Err("Transport", t))

(***************************************************************************)
(* The inputs of the modelled user interface.                             *)
(***************************************************************************)
NewContents == {[userId |-> CurrentUser, type |-> ty] : ty \in AddTypes}
ContentUpdates == {[isFavorite |-> TRUE]}
NewCollections == {[userId |-> CurrentUser, name |-> "b"]}
CollectionUpdates == {[name |-> "c"]}

(***************************************************************************)
(* The callers.  ContentBrowser.tsx (lines 37-45) initializes the store   *)
(* when it mounts and cleans it up when it unmounts.                      *)
(***************************************************************************)
mount ==
    /\ contentUnsubscribe = NoHandle
    /\ initialize(CurrentUser)

unmount ==
    /\ contentUnsubscribe # NoHandle
    /\ cleanup

Pushes ==
    \/ \E l \in liveContent : pushContent(l)
    \/ \E l \in liveCollections : pushCollections(l)

ContentCalls(t) ==
    \/ \E content \in NewContents : addContent(t, content)
    \/ \E id \in ContentIds, updates \in ContentUpdates : editContent(t, id, updates)
    \/ \E id \in ContentIds : removeContent(t, id)

ContentSteps(t) ==
    \/ GatewayAddDoc(t)
    \/ ResumeAddContent(t)
    \/ GatewayGetDoc(t)
    \/ GatewayUpdateDoc(t)
    \/ ResumeEditContent(t)
    \/ GatewayDeleteDoc(t)
    \/ ResumeRemoveContent(t)

CollectionCalls(t) ==
    \/ \E collection \in NewCollections : addCollection(t, collection)
    \/ \E id \in CollectionIds, updates \in CollectionUpdates :
            editCollection(t, id, updates)
    \/ \E id \in CollectionIds : removeCollection(t, id)

CollectionSteps(t) ==
    \/ GatewayAddCollDoc(t)
    \/ ResumeAddCollection(t)
    \/ GatewayUpdateCollDoc(t)
    \/ ResumeEditCollection(t)
    \/ GatewayDeleteCollDoc(t)
    \/ ResumeRemoveCollection(t)

MembershipCalls(t) ==
    \/ \E id \in ContentIds, k \in CollectionIds : addToCollection(t, id, k)
    \/ \E id \in ContentIds, k \in CollectionIds : removeFromCollection(t, id, k)

(***************************************************************************)
(* The whole store.                                                       *)
(***************************************************************************)
Next ==
    \/ initialize(CurrentUser)
    \/ cleanup
    \/ Pushes
    \/ \E id \in 0..MaxContent : selectContent(id)
    \/ \E id \in 0..MaxCollections : selectCollection(id)
    \/ foreignCreate
    \/ \E t \in Tasks :
        \/ loadContent(t, CurrentUser)
        \/ GatewayGetDocs(t)
        \/ GatewayGetDocsFails(t)
        \/ ResumeLoadContent(t)
        \/ ContentCalls(t)
        \/ \E id \in ContentIds : toggleFavorite(t, id)
        \/ \E id \in ContentIds : toggleContentPublic(t, id)
        \/ CollectionCalls(t)
        \/ MembershipCalls(t)
        \/ ContentSteps(t)
        \/ CollectionSteps(t)
        \/ GatewayFails(t)

Spec == Init /\ [][Next]_vars

(***************************************************************************)
(* The content operations of a mounted component.                         *)
(***************************************************************************)
NextContent ==
    \/ mount
    \/ Pushes
    \/ \E id \in 0..MaxContent : selectContent(id)
    \/ \E t \in Tasks :
        \/ ContentCalls(t)
        \/ ContentSteps(t)
        \/ GatewayFails(t)

SpecContent == Init /\ [][NextContent]_vars

(***************************************************************************)
(* The six mutations of content and collections.                          *)
(***************************************************************************)
NextMutations ==
    \/ mount
    \/ Pushes
    \/ \E t \in Tasks :
        \/ ContentCalls(t)
        \/ CollectionCalls(t)
        \/ ContentSteps(t)
        \/ CollectionSteps(t)
        \/ GatewayFails(t)

SpecMutations == Init /\ [][NextMutations]_vars

(***************************************************************************)
(* Collection membership.                                                 *)
(***************************************************************************)
NextMembership ==
    \/ mount
    \/ Pushes
    \/ \E id \in 0..MaxContent : selectContent(id)
    \/ \E t \in Tasks :
        \/ MembershipCalls(t)
        \/ GatewayGetDoc(t)
        \/ GatewayUpdateDoc(t)
        \/ ResumeEditContent(t)
        \/ GatewayUpdateCollDoc(t)
        \/ ResumeEditCollection(t)
        \/ GatewayFails(t)

SpecMembership == Init /\ [][NextMembership]_vars

(***************************************************************************)
(* The lifecycle of the store: initialize and cleanup called in any       *)
(* order, with additions that change what the pushes carry.               *)
(***************************************************************************)
NextLifecycle ==
    \/ initialize(CurrentUser)
    \/ cleanup
    \/ Pushes
    \/ \E t \in Tasks :
        \/ \E content \in NewContents : addContent(t, content)
        \/ GatewayAddDoc(t)
        \/ ResumeAddContent(t)

SpecLifecycle == Init /\ [][NextLifecycle]_vars

(***************************************************************************)
(* Selections of a component that mounts and unmounts, with removals that *)
(* take entries out of the local sets.                                    *)
(***************************************************************************)
NextSelection ==
    \/ mount
    \/ unmount
    \/ Pushes
    \/ \E id \in 0..MaxContent : selectContent(id)
    \/ \E id \in 0..MaxCollections : selectCollection(id)
    \/ \E t \in Tasks :
        \/ \E id \in ContentIds : removeContent(t, id)
        \/ GatewayDeleteDoc(t)
        \/ ResumeRemoveContent(t)
        \/ \E id \in CollectionIds : removeCollection(t, id)
        \/ GatewayDeleteCollDoc(t)
        \/ ResumeRemoveCollection(t)

SpecSelection == Init /\ [][NextSelection]_vars

(***************************************************************************)
(* Membership calls issued one after another by a caller that waits for   *)
(* each to return, the first one once both first snapshots have arrived;  *)
(* no snapshot is delivered after the first call and no Gateway call      *)
(* fails.                                                                 *)
(***************************************************************************)
AllIdle == \A t \in Tasks : IsIdle(t)
Synced ==
    /\ contentUnsubscribe # NoHandle
    /\ dueContent = {}
    /\ dueCollections = {}

pushBeforeCalls ==
    /\ calls = 0
    /\ Pushes

callInTurn(t) ==
    /\ AllIdle
    /\ calls = 0 => Synced
    /\ MembershipCalls(t)

NextSequential ==
    \/ mount
    \/ pushBeforeCalls
    \/ \E t \in Tasks :
        \/ callInTurn(t)
        \/ GatewayGetDoc(t)
        \/ GatewayUpdateDoc(t)
        \/ ResumeEditContent(t)
        \/ GatewayUpdateCollDoc(t)
        \/ ResumeEditCollection(t)

SpecSequential == Init /\ [][NextSequential]_vars

(***************************************************************************)
(* The round trip: one addToCollection(c, k) awaited to its end and, when *)
(* it returned, removeFromCollection(c, k) awaited to its end; snapshots  *)
(* are delivered before the first call only and no Gateway call fails.    *)
(***************************************************************************)
addFirst(t) ==
    /\ calls = 0
    /\ \E id \in ContentIds, k \in CollectionIds : addToCollection(t, id, k)

removeSecond(t) ==
    /\ calls = 1
    /\ AllIdle
    /\ lastOp.name = "addToCollection"
    /\ lastOp.result = "ok"
    /\ removeFromCollection(t, lastOp.contentId, lastOp.collectionId)

NextRoundTrip ==
    \/ mount
    \/ pushBeforeCalls
    \/ \E t \in Tasks :
        \/ addFirst(t)
        \/ removeSecond(t)
        \/ GatewayGetDoc(t)
        \/ GatewayUpdateDoc(t)
        \/ ResumeEditContent(t)
        \/ GatewayUpdateCollDoc(t)
        \/ ResumeEditCollection(t)

SpecRoundTrip == Init /\ [][NextRoundTrip]_vars

(***************************************************************************)
(* Decoding: listings and content snapshots of a remote store that other  *)
(* clients write to.                                                      *)
(***************************************************************************)
NextDecode ==
    \/ mount
    \/ Pushes
    \/ foreignCreate
    \/ \E t \in Tasks :
        \/ loadContent(t, CurrentUser)
        \/ GatewayGetDocs(t)
        \/ GatewayGetDocsFails(t)
        \/ ResumeLoadContent(t)
        \/ \E content \in NewContents : addContent(t, content)
        \/ GatewayAddDoc(t)
        \/ ResumeAddContent(t)

SpecDecode == Init /\ [][NextDecode]_vars

(***************************************************************************)
(* The conversions with every field of content-types.ts.  A property that *)
(* is undefined is a field the record does not have; a Firestore          *)
(* Timestamp is [millis]; now is the clock that Date.now() and            *)
(* serverTimestamp() read.                                                *)
(***************************************************************************)
MaxTime == 2            \* clock values

ClockTimes == 1..MaxTime
Stamp(n) == [millis |-> n]
toMillis(ts) == ts.millis

\* { f: r.f, ... } for the fields named
Pick(r, fields) == [f \in {g \in fields : Has(r, g)} |-> r[f]]

PayloadFields ==
    [photo |-> {"storageRef", "thumbnailRef", "dimensions", "location", "camera"},
     document |-> {"storageRef", "fileType", "fileSize", "previewRef"},
     code |-> {"language", "code", "runnable"},
     note |-> {"content", "color"},
     art |-> {"storageRef", "medium", "dimensions"},
     link |-> {"url", "favicon", "ogImage", "siteName"}]

\* convertToContent, lines 42-119
ToContent(docData, now) ==
    IF docData.type \in ContentTypes
    THEN Merge(Merge(Pick(docData, {"id", "userId", "title", "type"}),
                     [description |-> Get(docData, "description", ""),
                      tags |-> Get(docData, "tags", <<>>),
                      createdAt |-> IF Has(docData, "createdAt")
                                    THEN toMillis(docData.createdAt) ELSE now,
                      updatedAt |-> IF Has(docData, "updatedAt")
                                    THEN toMillis(docData.updatedAt) ELSE now,
                      isFavorite |-> Get(docData, "isFavorite", FALSE),
                      isPublic |-> Get(docData, "isPublic", FALSE),
                      collections |-> Get(docData, "collections", <<>>)]),
               Pick(docData, PayloadFields[docData.type]))
    ELSE Throws

\* convertFromContent, lines 122-202
FromContent(content, now) ==
    IF content.type \in ContentTypes
    THEN Merge(Merge(Merge(Pick(content, {"userId", "title", "type"}),
                           [description |-> Get(content, "description", ""),
                            tags |-> Get(content, "tags", <<>>),
                            isFavorite |-> Get(content, "isFavorite", FALSE),
                            isPublic |-> Get(content, "isPublic", FALSE),
                            collections |-> Get(content, "collections", <<>>),
                            updatedAt |-> Stamp(now)]),
                     IF ~Has(content, "id") THEN [createdAt |-> Stamp(now)]
                     ELSE <<>>),
               Pick(content, PayloadFields[content.type]))
    ELSE Throws

\* the required payload of a kind, and one with every optional field too
RequiredPayload ==
    [photo |-> [storageRef |-> "s"],
     document |-> [storageRef |-> "s", fileType |-> "pdf", fileSize |-> 1],
     code |-> [language |-> "ts", code |-> "c"],
     note |-> [content |-> "n"],
     art |-> [storageRef |-> "s"],
     link |-> [url |-> "u"]]

FullPayload ==
    [photo |-> [storageRef |-> "s", thumbnailRef |-> "t", dimensions |-> <<1, 1>>,
                location |-> <<0, 0>>, camera |-> "c"],
     document |-> [storageRef |-> "s", fileType |-> "pdf", fileSize |-> 1,
                   previewRef |-> "p"],
     code |-> [language |-> "ts", code |-> "c", runnable |-> TRUE],
     note |-> [content |-> "n", color |-> "red"],
     art |-> [storageRef |-> "s", medium |-> "oil", dimensions |-> <<1, 1>>],
     link |-> [url |-> "u", favicon |-> "f", ogImage |-> "o", siteName |-> "n"]]

OptionalCommon ==
    {<<>>,
     [description |-> "d", tags |-> <<"t">>, isFavorite |-> TRUE, isPublic |-> TRUE,
      collections |-> <<1>>]}

\* the stored documents the conversions are given: of every kind, with and
\* without the optional fields
CodecRecords ==
    {Merge(Merge([userId |-> CurrentUser, title |-> "t", type |-> k,
                  createdAt |-> Stamp(1), updatedAt |-> Stamp(1)],
                 common),
           payload[k]) :
        k \in ContentTypes, common \in OptionalCommon,
        payload \in {RequiredPayload, FullPayload}}

\* the items they are given: the same, identified and with the timestamps
\* as numbers
CodecItems ==
    {Merge(Merge([id |-> 1, userId |-> CurrentUser, title |-> "t", type |-> k,
                  createdAt |-> 1, updatedAt |-> 1],
                 common),
           payload[k]) :
        k \in ContentTypes, common \in OptionalCommon,
        payload \in {RequiredPayload, FullPayload}}

InitCodec ==
    /\ allContent = <<>>
    /\ contentByType = EmptyBuckets
    /\ collections = <<>>
    /\ selectedContent = NULL
    /\ selectedCollection = NULL
    /\ isLoading = FALSE
    /\ error = NULL
    /\ contentUnsubscribe = NoHandle
    /\ collectionsUnsubscribe = NoHandle
    /\ remoteContent = <<>>
    /\ remoteCollections = <<>>
    /\ nextId = [content |-> 1, collection |-> 1]
    /\ liveContent = {}
    /\ liveCollections = {}
    /\ dueContent = {}
    /\ dueCollections = {}
    /\ tasks = [t \in Tasks |-> Idle]
    /\ calls = 0
    /\ \/ \E record \in CodecRecords : lastOp = Op("record", 0, "none", record, <<>>)
       \/ \E item \in CodecItems : lastOp = Op("item", 0, "none", item, <<>>)

storeUntouched ==
    UNCHANGED <<storeData, storeFlags, subsVars, remoteVars, tasks, calls>>

\* convertToContent(record)
decodeRecord ==
    /\ lastOp.name = "record"
    /\ \E now \in ClockTimes :
        lastOp' = Op("decode", 0, "ok",
                     [record |-> lastOp.value, item |-> ToContent(lastOp.value, now),
                      at |-> now], <<>>)
    /\ storeUntouched

\* convertFromContent(convertToContent(record)), at the same time or later
encodeDecoded ==
    /\ lastOp.name = "decode"
    /\ \E now \in lastOp.value.at..MaxTime :
        lastOp' = Op("decodeEncode", 0, "ok",
                     [record |-> lastOp.value.record,
                      back |-> FromContent(lastOp.value.item, now)], <<>>)
    /\ storeUntouched

\* convertFromContent(item)
encodeItem ==
    /\ lastOp.name = "item"
    /\ \E now \in ClockTimes :
        lastOp' = Op("encode", 0, "ok",
                     [item |-> lastOp.value, record |-> FromContent(lastOp.value, now),
                      at |-> now], <<>>)
    /\ storeUntouched

\* convertToContent(convertFromContent(item)), at the same time or later
decodeEncoded ==
    /\ lastOp.name = "encode"
    /\ \E now \in lastOp.value.at..MaxTime :
        lastOp' = Op("encodeDecode", 0, "ok",
                     [item |-> lastOp.value.item,
                      back |-> ToContent(lastOp.value.record, now)], <<>>)
    /\ storeUntouched

NextCodec ==
    \/ decodeRecord
    \/ encodeDecoded
    \/ encodeItem
    \/ decodeEncoded

SpecCodec == InitCodec /\ [][NextCodec]_vars

(***************************************************************************)
(* The collection mutations, with selections of collections.              *)
(***************************************************************************)
NextCollections ==
    \/ mount
    \/ Pushes
    \/ \E id \in 0..MaxCollections : selectCollection(id)
    \/ \E t \in Tasks :
        \/ CollectionCalls(t)
        \/ CollectionSteps(t)
        \/ GatewayFails(t)

SpecCollections == Init /\ [][NextCollections]_vars

(***************************************************************************)
(* The content operations with updates that carry any field of            *)
(* Partial<Content>, the type among them, and listings.                   *)
(***************************************************************************)
KindUpdates == {[isFavorite |-> TRUE], [type |-> "link"]}

NextKinds ==
    \/ mount
    \/ Pushes
    \/ \E t \in Tasks :
        \/ \E content \in NewContents : addContent(t, content)
        \/ \E id \in ContentIds, updates \in KindUpdates : editContent(t, id, updates)
        \/ \E id \in ContentIds : removeContent(t, id)
        \/ loadContent(t, CurrentUser)
        \/ GatewayGetDocs(t)
        \/ GatewayGetDocsFails(t)
        \/ ResumeLoadContent(t)
        \/ ContentSteps(t)

SpecKinds == Init /\ [][NextKinds]_vars

(***************************************************************************)
(* Two addToCollection calls that may overlap, on a remote store whose    *)
(* note and link are in no collection and whose album counts no item; the *)
(* first call is made once both first snapshots have arrived, no snapshot *)
(* is delivered after it and no Gateway call fails.                       *)
(***************************************************************************)
UnfiledNoteData == [userId |-> CurrentUser, type |-> "note", isFavorite |-> FALSE]
EmptyAlbumData == [userId |-> CurrentUser, name |-> "a", contentCount |-> 0]

InitUnfiled ==
    /\ allContent = <<>>
    /\ contentByType = EmptyBuckets
    /\ collections = <<>>
    /\ selectedContent = NULL
    /\ selectedCollection = NULL
    /\ isLoading = FALSE
    /\ error = NULL
    /\ contentUnsubscribe = NoHandle
    /\ collectionsUnsubscribe = NoHandle
    /\ remoteContent = <<Doc(2, LinkData), Doc(1, UnfiledNoteData)>>
    /\ remoteCollections = <<Doc(1, EmptyAlbumData)>>
    /\ nextId = [content |-> 3, collection |-> 2]
    /\ liveContent = {}
    /\ liveCollections = {}
    /\ dueContent = {}
    /\ dueCollections = {}
    /\ tasks = [t \in Tasks |-> Idle]
    /\ calls = 0
    /\ lastOp = Op("construct", 0, "none", NULL, <<>>)

addWhenSynced(t) ==
    /\ calls = 0 => Synced
    /\ \E id \in ContentIds, k \in CollectionIds : addToCollection(t, id, k)

NextTwoAdds ==
    \/ mount
    \/ pushBeforeCalls
    \/ \E t \in Tasks :
        \/ addWhenSynced(t)
        \/ GatewayGetDoc(t)
        \/ GatewayUpdateDoc(t)
        \/ ResumeEditContent(t)
        \/ GatewayUpdateCollDoc(t)
        \/ ResumeEditCollection(t)

SpecTwoAdds == InitUnfiled /\ [][NextTwoAdds]_vars

(***************************************************************************)
(* The same toggle called twice for one item, the second time while the   *)
(* first call is in flight or after it returned; the first call is made   *)
(* once both first snapshots have arrived, no snapshot is delivered after *)
(* it and no Gateway call fails.                                          *)
(***************************************************************************)
toggleFirst(t) ==
    /\ calls = 0
    /\ Synced
    /\ \E id \in ContentIds : toggleFavorite(t, id) \/ toggleContentPublic(t, id)

\* the toggle called first: the one in flight, or the one that just returned
FirstToggle ==
    IF AllIdle THEN [op |-> lastOp.name, id |-> lastOp.contentId]
    ELSE LET u == CHOOSE u \in Tasks : ~IsIdle(u)
         IN [op |-> tasks[u].op, id |-> tasks[u].contentId]

toggleAgain(t) ==
    /\ calls = 1
    /\ IF FirstToggle.op = "toggleFavorite"
       THEN toggleFavorite(t, FirstToggle.id)
       ELSE toggleContentPublic(t, FirstToggle.id)

NextTwoToggles ==
    \/ mount
    \/ pushBeforeCalls
    \/ \E t \in Tasks :
        \/ toggleFirst(t)
        \/ toggleAgain(t)
        \/ GatewayGetDoc(t)
        \/ GatewayUpdateDoc(t)
        \/ ResumeEditContent(t)

SpecTwoToggles == Init /\ [][NextTwoToggles]_vars

(***************************************************************************)
(* The two toggles.                                                       *)
(***************************************************************************)
NextToggles ==
    \/ mount
    \/ Pushes
    \/ \E t \in Tasks :
        \/ \E id \in ContentIds : toggleFavorite(t, id)
        \/ \E id \in ContentIds : toggleContentPublic(t, id)
        \/ GatewayGetDoc(t)
        \/ GatewayUpdateDoc(t)
        \/ ResumeEditContent(t)
        \/ GatewayFails(t)

SpecToggles == Init /\ [][NextToggles]_vars

(***************************************************************************)
(* Properties.                                                            *)
(***************************************************************************)
OfType(content, k) == SelectSeq(content, LAMBDA item : item.type = k)
Ids(s) == [i \in DOMAIN s |-> s[i].id]
InFlight(t, op, pc) == tasks[t].op = op /\ tasks[t].pc = pc
EndedOk(op) == lastOp.name = op /\ lastOp.result = "ok"
EndedOkNext(op) == lastOp'.name = op /\ lastOp'.result = "ok"

\* C1: after every content push the store holds exactly the pushed sequence:
\* allContent is that sequence, which lists the owner's remote documents in
\* query order, and each bucket of contentByType is the items of its kind in
\* that order.  Nothing of the state before the push survives, whether or not
\* an add, edit or remove call is in flight, so the last push decides.
C1_PushReplacesContent ==
    EndedOk("pushContent") =>
        /\ StripSeq(allContent) = lastOp.value
        /\ Ids(allContent) = Ids(QueryByUser(remoteContent, CurrentUser))
        /\ \A k \in ContentTypes : contentByType[k] = OfType(allContent, k)

\* a push has landed while addContent waits to resume after its write
C1_Witness ==
    /\ EndedOk("pushContent")
    /\ \E t \in Tasks :
        /\ InFlight(t, "addContent", "created")
        /\ FindById(allContent, tasks[t].contentId) # NULL
        /\ Len(allContent) = MaxContent

\* C2: a successful addContent returns the created item, whose id is the one
\* the remote store assigned, and appends it at the tail of allContent and at
\* the tail of the bucket of its kind; the other buckets do not change.  From
\* an empty store both then have length 1.
C2_AddAppends ==
    [][EndedOkNext("addContent") =>
        LET item == lastOp'.value
        IN /\ item.id \in ContentIds
           /\ item.id = tasks[lastOp'.task].contentId
           /\ StripSeq(allContent') = Append(StripSeq(allContent), item)
           /\ StripSeq(contentByType'[item.type])
                = Append(StripSeq(contentByType[item.type]), item)
           /\ \A k \in ContentTypes \ {item.type} :
                StripSeq(contentByType'[k]) = StripSeq(contentByType[k])
           /\ (allContent = <<>> /\ contentByType = EmptyBuckets) =>
                /\ Len(allContent') = 1
                /\ Len(contentByType'[item.type]) = 1]_vars

\* addContent has returned the first item of a store that was empty
C2_Witness ==
    /\ EndedOk("addContent")
    /\ StripSeq(allContent) = <<lastOp.value>>
    /\ StripSeq(contentByType[lastOp.value.type]) = <<lastOp.value>>

\* task t ends in this step
EndsNext(t) == tasks[t].pc # "idle" /\ tasks'[t].pc = "idle"

SixMutations == {"addContent", "editContent", "removeContent",
                 "addCollection", "editCollection", "removeCollection"}
\* where a task waits for a Gateway call that has not taken effect
BeforeWrite == {"addDoc", "getDoc", "updateDoc", "deleteDoc",
                "addCollDoc", "updateCollDoc", "deleteCollDoc"}

\* C3: when the Gateway call of addContent, editContent, removeContent,
\* addCollection, editCollection or removeCollection fails, the call throws
\* that failure to its caller, error is that failure whatever it was before,
\* and allContent, contentByType, collections, selectedContent and
\* selectedCollection are as they were before the failure was handled.
C3_FailureLeavesData ==
    [][\A t \in Tasks :
        (/\ tasks[t].op \in SixMutations
         /\ EndsNext(t)
         /\ tasks[t].pc \in BeforeWrite \/ lastOp'.result = "thrown") =>
            /\ lastOp'.name = tasks[t].op
            /\ lastOp'.task = t
            /\ lastOp'.result = "thrown"
            /\ lastOp'.value \in {Err(kind, t) :
                                    kind \in {"Transport", "NotFound", "CreateFailed"}}
            /\ error' = lastOp'.value
            /\ UNCHANGED <<allContent, contentByType, collections, selectedContent,
                           selectedCollection>>]_vars

\* removeContent has failed in a store that holds content and a selection
C3_Witness ==
    /\ lastOp.name = "removeContent"
    /\ lastOp.result = "thrown"
    /\ error = lastOp.value
    /\ FindById(allContent, lastOp.contentId) # NULL
    /\ selectedContent # NULL
    /\ selectedCollection # NULL

\* the items of the store with identifier id: in allContent, in the buckets
\* and the selection
Holders(all, buckets, selected, id) ==
    {item \in Range(all) : item.id = id}
        \cup UNION {{item \in Range(buckets[k]) : item.id = id} : k \in ContentTypes}
        \cup (IF selected # NULL /\ selected.id = id THEN {selected} ELSE {})

\* C4: when addToCollection fails because its membership write fails, the
\* collections of the item do not list the collection: not in allContent, not
\* in its bucket, not in selectedContent.  (The call writes the membership
\* only when the item did not list the collection before.)
C4_FailedAddKeepsMembership ==
    [][\A t \in Tasks :
        (/\ tasks[t].op = "addToCollection"
         /\ tasks[t].pc \in {"getDoc", "updateDoc"}
         /\ EndsNext(t)) =>
            \A item \in Holders(allContent', contentByType', selectedContent',
                                tasks[t].contentId) :
                ~Includes(item.collections.val, tasks[t].collectionId)]_vars

\* editContent's call resumes after the Gateway update and returns
EditResumes(t) == InFlight(t, "editContent", "updated") /\ EndsNext(t)

\* C5 as stated: whenever editContent succeeds, the merge has been applied to
\* the entries with id in allContent and in the buckets and to selectedContent
\* when its id is id, whatever pushes came between the call and its return.
C5_MergesSelectionAlways ==
    [][\A t \in Tasks : EditResumes(t) =>
        LET id == tasks[t].contentId
            updates == tasks[t].updates
        IN /\ allContent' = Map(allContent, LAMBDA item : EditedItem(item, id, updates))
           /\ \A k \in ContentTypes :
                contentByType'[k]
                    = Map(contentByType[k], LAMBDA item : EditedItem(item, id, updates))
           /\ (selectedContent # NULL /\ selectedContent.id = id) =>
                selectedContent' = Merge(selectedContent, updates)]_vars

\* C5, amended: when editContent succeeds and allContent has an entry with id
\* as the call resumes, the same merge is applied to that entry, to the entry
\* in the bucket of its kind and, when its id is id, to selectedContent, and
\* every other entry and a selection with another id are unchanged; when
\* allContent has no entry with id, none of the three changes.
C5_MergesWhenListed ==
    [][\A t \in Tasks : EditResumes(t) =>
        LET id == tasks[t].contentId
            updates == tasks[t].updates
        IN IF \E i \in DOMAIN allContent : allContent[i].id = id
           THEN /\ allContent'
                    = Map(allContent, LAMBDA item : EditedItem(item, id, updates))
                /\ \A k \in ContentTypes :
                    contentByType'[k]
                        = Map(contentByType[k],
                              LAMBDA item : EditedItem(item, id, updates))
                /\ selectedContent' =
                    IF selectedContent # NULL /\ selectedContent.id = id
                    THEN Merge(selectedContent, updates)
                    ELSE selectedContent
           ELSE UNCHANGED <<allContent, contentByType, selectedContent>>]_vars

\* editContent has returned with the merge in the list, the bucket and the
\* selection
C5_Witness ==
    /\ EndedOk("editContent")
    /\ \E item \in Range(allContent) :
        /\ item.id = lastOp.contentId
        /\ item.isFavorite
        /\ item \in Range(contentByType[item.type])
        /\ selectedContent = item

\* C6: editContent always goes to the Gateway update, whether or not
\* allContent has the id; when allContent has no entry with the id as the call
\* resumes, the call returns without an error having made that one Gateway
\* call, and allContent, contentByType and selectedContent are unchanged.
C6_EditOfAbsentId ==
    [][\A t \in Tasks :
        /\ (tasks[t].pc = "idle" /\ tasks'[t].op = "editContent") =>
                /\ tasks'[t].pc = "getDoc"
                /\ tasks'[t].gw = <<"updateContent">>
        /\ (EditResumes(t) /\ FindById(allContent, tasks[t].contentId) = NULL) =>
                /\ lastOp'.name = "editContent"
                /\ lastOp'.result = "ok"
                /\ lastOp'.gw = <<"updateContent">>
                /\ error' = error
                /\ UNCHANGED <<allContent, contentByType, selectedContent>>]_vars

\* editContent has returned for an id that allContent lacks while the
\* selection has that id
C6_Witness ==
    /\ EndedOk("editContent")
    /\ lastOp.gw = <<"updateContent">>
    /\ FindById(allContent, lastOp.contentId) = NULL
    /\ error = NULL
    /\ selectedContent # NULL
    /\ selectedContent.id = lastOp.contentId
    /\ ~selectedContent.isFavorite

\* C7: whenever removeContent succeeds, no entry of allContent or of a bucket
\* has the id, and the selection does not have it either, whatever pushes came
\* between the call and its return.
C7_RemoveClearsEverywhere ==
    EndedOk("removeContent") =>
        /\ FindById(allContent, lastOp.contentId) = NULL
        /\ \A k \in ContentTypes : FindById(contentByType[k], lastOp.contentId) = NULL
        /\ selectedContent # NULL => selectedContent.id # lastOp.contentId

\* C8: selectContent(id) sets selectedContent to the allContent entry with
\* that id, or to null when id is null or no entry has it; selectCollection
\* does the same with collections and selectedCollection.  Neither changes
\* anything else in the store.
C8_Selection ==
    [][/\ lastOp'.name = "selectContent" =>
            LET id == lastOp'.value
                entries == {item \in Range(allContent) : item.id = id}
            IN /\ lastOp'.result = "ok"
               /\ IF id = 0 \/ entries = {}
                  THEN selectedContent' = NULL
                  ELSE selectedContent' \in entries
               /\ UNCHANGED <<allContent, contentByType, collections,
                              selectedCollection, isLoading, error,
                              contentUnsubscribe, collectionsUnsubscribe>>
       /\ lastOp'.name = "selectCollection" =>
            LET id == lastOp'.value
                entries == {item \in Range(collections) : item.id = id}
            IN /\ lastOp'.result = "ok"
               /\ IF id = 0 \/ entries = {}
                  THEN selectedCollection' = NULL
                  ELSE selectedCollection' \in entries
               /\ UNCHANGED <<allContent, contentByType, collections,
                              selectedContent, isLoading, error,
                              contentUnsubscribe, collectionsUnsubscribe>>]_vars

\* selectContent has selected an entry of allContent while a collection is
\* selected
C8_Witness ==
    /\ lastOp.name = "selectContent"
    /\ selectedContent \in Range(allContent)
    /\ selectedContent.id = lastOp.value
    /\ selectedCollection \in Range(collections)

\* C9: cleanup calls each stored unsubscribe handle once, which detaches its
\* listener, and sets both handles to null.  With no handle stored, as after a
\* cleanup or before any initialize, it calls nothing, changes nothing and
\* does not throw.
C9_Cleanup ==
    [][lastOp'.name = "cleanup" =>
        LET called == lastOp'.value
            Times(kind, h) ==
                Cardinality({i \in DOMAIN called : called[i] = [kind |-> kind, h |-> h]})
        IN /\ lastOp'.result = "ok"
           /\ Times("content", contentUnsubscribe)
                = IF contentUnsubscribe = NoHandle THEN 0 ELSE 1
           /\ Times("collections", collectionsUnsubscribe)
                = IF collectionsUnsubscribe = NoHandle THEN 0 ELSE 1
           /\ Len(called) = Times("content", contentUnsubscribe)
                                + Times("collections", collectionsUnsubscribe)
           /\ liveContent' = {l \in liveContent : l.h # contentUnsubscribe}
           /\ liveCollections' = {l \in liveCollections : l.h # collectionsUnsubscribe}
           /\ contentUnsubscribe' = NoHandle
           /\ collectionsUnsubscribe' = NoHandle
           /\ (contentUnsubscribe = NoHandle /\ collectionsUnsubscribe = NoHandle) =>
                /\ called = <<>>
                /\ UNCHANGED <<storeData, storeFlags, subsVars, remoteVars, tasks>>]_vars

\* cleanup has called the two stored handles and no listener is left
C9_Witness ==
    /\ lastOp.name = "cleanup"
    /\ Len(lastOp.value) = 2
    /\ liveContent = {}
    /\ liveCollections = {}
    /\ contentUnsubscribe = NoHandle
    /\ collectionsUnsubscribe = NoHandle

\* C10: initialize(userId) sets isLoading true and error null, opens exactly
\* one content subscription and one collection subscription for userId and
\* stores their handles.  Every push received after that leaves isLoading
\* false, and a content push of an empty remote set leaves allContent empty.
C10_Initialize ==
    [][/\ lastOp'.name = "initialize" =>
            /\ isLoading'
            /\ error' = NULL
            /\ contentUnsubscribe' # NoHandle
            /\ collectionsUnsubscribe' # NoHandle
            /\ [h |-> contentUnsubscribe', userId |-> CurrentUser] \notin liveContent
            /\ liveContent'
                = liveContent \cup {[h |-> contentUnsubscribe', userId |-> CurrentUser]}
            /\ [h |-> collectionsUnsubscribe', userId |-> CurrentUser]
                    \notin liveCollections
            /\ liveCollections'
                = liveCollections
                    \cup {[h |-> collectionsUnsubscribe', userId |-> CurrentUser]}
       /\ (EndedOkNext("pushContent") \/ EndedOkNext("pushCollections")) =>
            ~isLoading'
       /\ (lastOp'.name = "pushContent"
                /\ QueryByUser(remoteContent, CurrentUser) = <<>>) =>
            /\ lastOp'.result = "ok"
            /\ allContent' = <<>>
            /\ ~isLoading']_vars

\* the first content push of an empty remote set has arrived
C10_Witness ==
    /\ EndedOk("pushContent")
    /\ remoteContent = <<>>
    /\ allContent = <<>>
    /\ ~isLoading
    /\ error = NULL
    /\ contentUnsubscribe # NoHandle

\* C11: a mutation that fails leaves error non-null, and a mutation that
\* completes successfully leaves error null, also when it was in flight while
\* another mutation failed.
C11_SuccessClearsError ==
    /\ (lastOp.name \in SixMutations /\ lastOp.result = "thrown") => error # NULL
    /\ (lastOp.name \in SixMutations /\ lastOp.result = "ok") => error = NULL

Toggles == {"toggleFavorite", "toggleContentPublic"}
ToggledField(op) == IF op = "toggleFavorite" THEN "isFavorite" ELSE "isPublic"
\* the first entry of allContent with identifier id
EntryOf(id) ==
    allContent[CHOOSE i \in DOMAIN allContent :
                    /\ allContent[i].id = id
                    /\ \A j \in 1..(i - 1) : allContent[j].id # id]

\* C12: a toggle called for an id that allContent has starts editContent
\* (isLoading true, error null, one Gateway update) with the negation of the
\* entry's isFavorite, or isPublic for toggleContentPublic, as the only
\* update; a toggle called for an id that allContent lacks returns without a
\* Gateway call and changes no store field and nothing remote.
C12_Toggles ==
    [][\A t \in Tasks :
        /\ (tasks[t].pc = "idle" /\ tasks'[t].op \in Toggles) =>
            LET id == tasks'[t].contentId
                field == ToggledField(tasks'[t].op)
            IN /\ \E i \in DOMAIN allContent : allContent[i].id = id
               /\ DOMAIN tasks'[t].updates = {field}
               /\ tasks'[t].updates[field] = ~EntryOf(id)[field]
               /\ tasks'[t].pc = "getDoc"
               /\ tasks'[t].gw = <<"updateContent">>
               /\ isLoading'
               /\ error' = NULL
        /\ (/\ tasks[t].pc = "idle"
            /\ lastOp'.task = t
            /\ lastOp'.name \in Toggles
            /\ \A i \in DOMAIN allContent : allContent[i].id # lastOp'.contentId) =>
                /\ lastOp'.result = "ok"
                /\ lastOp'.gw = <<>>
                /\ UNCHANGED <<storeData, storeFlags, contentUnsubscribe,
                               collectionsUnsubscribe, remoteVars, tasks>>]_vars

\* toggleContentPublic has made public an item that was not
C12_Witness ==
    /\ EndedOk("toggleContentPublic")
    /\ lastOp.gw = <<"updateContent">>
    /\ \E i \in DOMAIN allContent :
        /\ allContent[i].id = lastOp.contentId
        /\ allContent[i].isPublic
        /\ ~allContent[i].isFavorite
    /\ DataOf(remoteContent, lastOp.contentId).isPublic

MembershipOps == {"addToCollection", "removeFromCollection"}

\* C13: addToCollection and removeFromCollection called with a contentId that
\* allContent lacks throw ContentNotFound, which is recorded in error, make
\* no Gateway call and leave allContent, contentByType, collections and the
\* remote documents unchanged; a call goes on to the Gateway only for a
\* contentId that allContent has.
C13_ContentNotFound ==
    [][\A t \in Tasks :
        /\ (tasks[t].pc = "idle" /\ tasks'[t].op \in MembershipOps) =>
            \E i \in DOMAIN allContent : allContent[i].id = tasks'[t].contentId
        /\ (/\ tasks[t].pc = "idle"
            /\ lastOp'.task = t
            /\ lastOp'.name \in MembershipOps
            /\ \A i \in DOMAIN allContent : allContent[i].id # lastOp'.contentId) =>
                /\ lastOp'.result = "thrown"
                /\ lastOp'.value = Err("ContentNotFound", t)
                /\ error' = lastOp'.value
                /\ lastOp'.gw = <<>>
                /\ UNCHANGED <<allContent, contentByType, collections,
                               remoteVars, tasks>>]_vars

\* removeFromCollection has thrown ContentNotFound in a store that holds the
\* collection and no content yet
C13_Witness ==
    /\ lastOp.name = "removeFromCollection"
    /\ lastOp.result = "thrown"
    /\ lastOp.value.kind = "ContentNotFound"
    /\ error = lastOp.value
    /\ allContent = <<>>
    /\ \E i \in DOMAIN collections :
        collections[i].id = lastOp.collectionId /\ collections[i].contentCount = 1

\* how many times x is in the sequence s
Occurrences(s, x) == Cardinality({i \in DOMAIN s : s[i] = x})
\* the membership lists of the items with identifier id in allContent
ListsOf(all, id) == {all[i].collections.val : i \in {j \in DOMAIN all : all[j].id = id}}

\* C14: with calls made one after another and no push in between, after a
\* successful addToCollection(c, k) the membership list of item c holds k
\* exactly once, in the store and in the remote document, and an
\* addToCollection(c, k) that follows it issues no Gateway content update and
\* leaves the list as it is.
C14_AddTwice ==
    [][/\ EndedOkNext("addToCollection") =>
            /\ \A list \in ListsOf(allContent', lastOp'.contentId) :
                    Occurrences(list, lastOp'.collectionId) = 1
            /\ Occurrences(DataOf(remoteContent', lastOp'.contentId).collections,
                           lastOp'.collectionId) = 1
       /\ \A t \in Tasks :
            (/\ EndedOk("addToCollection")
             /\ tasks[t].pc = "idle"
             /\ tasks'[t].op = "addToCollection"
             /\ tasks'[t].contentId = lastOp.contentId
             /\ tasks'[t].collectionId = lastOp.collectionId) =>
                /\ tasks'[t].gw = <<"updateCollection">>
                /\ tasks'[t].pc = "updateCollDoc"
                /\ UNCHANGED <<allContent, contentByType, remoteContent>>]_vars

\* the second of two addToCollection(2, 1) has returned, having made only the
\* count write; the link lists the album once
C14_Witness ==
    /\ calls = 2
    /\ EndedOk("addToCollection")
    /\ lastOp.contentId = 2
    /\ lastOp.gw = <<"updateCollection">>
    /\ ListsOf(allContent, 2) = {<<lastOp.collectionId>>}

\* contentCount of every collection in the store is the number of allContent
\* items that list it
CountsAreCardinalities ==
    \A i \in DOMAIN collections :
        collections[i].contentCount
            = Cardinality({j \in DOMAIN allContent :
                            Includes(allContent[j].collections.val, collections[i].id)})

\* C15: starting from a synced store whose counts are the cardinalities of
\* membership, after any sequence of addToCollection and removeFromCollection
\* calls made one after another, with no push in between and no Gateway
\* failure, every contentCount is still the cardinality of membership.
C15_CountIsCardinality ==
    (AllIdle /\ calls > 0) => CountsAreCardinalities

\* the remote store that holds the note and the link, and what it held for
\* item c and collection k before any call
SeededRemote == CHOOSE r \in InitRemotes : r.content # <<>>
OriginalList(c) == Get(DataOf(SeededRemote.content, c), "collections", <<>>)
OriginalCount(k) == Get(DataOf(SeededRemote.collections, k), "contentCount", 0)

\* removeFromCollection(c, k) has returned after addToCollection(c, k) did,
\* and collection k is in the store
RoundTripDone ==
    /\ calls = 2
    /\ AllIdle
    /\ EndedOk("removeFromCollection")
    /\ FindById(collections, lastOp.collectionId) # NULL

\* item c lists what it listed and collection k counts what it counted before
\* the two calls, in the store and in the remote documents
Restored(c, k) ==
    /\ ListsOf(allContent, c) = {OriginalList(c)}
    /\ Get(DataOf(remoteContent, c), "collections", <<>>) = OriginalList(c)
    /\ FindById(collections, k).contentCount = OriginalCount(k)
    /\ Get(DataOf(remoteCollections, k), "contentCount", 0) = OriginalCount(k)

\* C16 as stated: addToCollection(c, k) followed by removeFromCollection(c, k),
\* both succeeding with no push in between, restores the contentCount of k and
\* the membership list of c, whether or not c was a member of k.
C16_RoundTripRestores ==
    RoundTripDone => Restored(lastOp.contentId, lastOp.collectionId)

\* C16: addToCollection(c, k) followed by removeFromCollection(c, k), both
\* succeeding with no push in between, restores the contentCount of k, and
\* restores the membership list of c when c was not a member of k before.
C16_RoundTripOfNonMember ==
    RoundTripDone =>
        /\ FindById(collections, lastOp.collectionId).contentCount
                = OriginalCount(lastOp.collectionId)
        /\ Get(DataOf(remoteCollections, lastOp.collectionId), "contentCount", 0)
                = OriginalCount(lastOp.collectionId)
        /\ ~Includes(OriginalList(lastOp.contentId), lastOp.collectionId) =>
                Restored(lastOp.contentId, lastOp.collectionId)

\* the link, which was not in the album, has been added to it and removed
\* again: it lists nothing and the album counts one item
C16_Witness ==
    /\ RoundTripDone
    /\ lastOp.contentId = 2
    /\ lastOp.gw = <<"updateContent", "updateCollection">>
    /\ ListsOf(allContent, 2) = {<<>>}
    /\ FindById(collections, lastOp.collectionId).contentCount = 1

\* every contentCount in the store, in the remote documents and in the
\* updates an operation is about to write is at least 0
CountsNotNegative ==
    /\ \A i \in DOMAIN collections : collections[i].contentCount >= 0
    /\ selectedCollection # NULL => selectedCollection.contentCount >= 0
    /\ \A i \in DOMAIN remoteCollections :
            Get(remoteCollections[i].data, "contentCount", 0) >= 0
    /\ \A t \in Tasks :
            (tasks[t].updates # NULL /\ Has(tasks[t].updates, "contentCount")) =>
                tasks[t].updates.contentCount >= 0

\* removeFromCollection of task t goes on from its membership write
RemoveResumes(t) ==
    /\ InFlight(t, "removeFromCollection", "updated")
    /\ tasks'[t].pc # "updated"

\* C17: under any interleaving of addToCollection, removeFromCollection and
\* pushes, every contentCount in the store, in the remote documents and in
\* the values handed to the Gateway is at least 0; the count write of
\* removeFromCollection is the count it read minus one, and when the count it
\* read is 0 it returns without a count write.
C17_NeverBelowZero ==
    /\ []CountsNotNegative
    /\ [][\A t \in Tasks : RemoveResumes(t) =>
            LET collection == FindById(tasks[t].captured, tasks[t].collectionId)
            IN IF collection # NULL /\ collection.contentCount > 0
               THEN /\ tasks'[t].pc = "updateCollDoc"
                    /\ tasks'[t].updates =
                            [contentCount |-> collection.contentCount - 1]
               ELSE /\ tasks'[t].pc = "idle"
                    /\ lastOp'.result = "ok"
                    /\ lastOp'.gw = <<"updateContent">>
                    /\ UNCHANGED <<collections, remoteCollections>>]_vars

\* a removeFromCollection that read a count of 0 has returned after its
\* membership write alone; the count is still 0
C17_Witness ==
    /\ EndedOk("removeFromCollection")
    /\ lastOp.gw = <<"updateContent">>
    /\ \E i \in DOMAIN collections :
        /\ collections[i].id = lastOp.collectionId
        /\ collections[i].contentCount = 0
    /\ \E i \in DOMAIN remoteCollections :
        /\ remoteCollections[i].id = lastOp.collectionId
        /\ remoteCollections[i].data.contentCount = 0

\* C18: the creation timestamp is stamped by create only, so a Gateway update
\* of an existing item leaves the newest-created-first order of the remote
\* documents as it was.
C18_UpdateKeepsCreationOrder ==
    [][\A t \in Tasks :
        (tasks[t].pc = "updateDoc" /\ tasks'[t].pc = "updated") =>
            Ids(remoteContent') = Ids(remoteContent)]_vars

\* the documents of the user's query hold one of a kind that is not a
\* content kind
UnknownKindListed ==
    \E i \in DOMAIN remoteContent :
        /\ remoteContent[i].data.userId = CurrentUser
        /\ remoteContent[i].data.type \notin ContentTypes

\* C19: a document whose kind is not one of the six content kinds does not
\* convert.  A content snapshot that holds such a document never reaches the
\* store's callback: allContent, contentByType and the flags stay as they
\* were.  A listing that holds one is rejected with UnknownKind, and
\* loadContent then records the error and leaves allContent and
\* contentByType as they were.
C19_UnknownKindAbortsBatch ==
    [][/\ \A i \in DOMAIN remoteContent :
            remoteContent[i].data.type \notin ContentTypes =>
                convertToContent(remoteContent[i].data, 0) = Throws
       /\ (lastOp'.name = "pushContent" /\ UnknownKindListed) =>
            /\ lastOp'.result = "thrown"
            /\ UNCHANGED <<allContent, contentByType, isLoading, error>>
       /\ \A t \in Tasks :
            /\ (tasks[t].pc = "getDocs" /\ tasks'[t].pc = "listed"
                    /\ UnknownKindListed) =>
                    tasks'[t].data.kind \in {"UnknownKind", "Transport"}
            /\ (tasks[t].pc = "listed" /\ tasks'[t].pc = "idle"
                    /\ Has(tasks[t].data, "kind")) =>
                    /\ error' = tasks[t].data
                    /\ isLoading' = FALSE
                    /\ UNCHANGED <<allContent, contentByType>>]_vars

\* a snapshot with a document of an unknown kind was dropped while the store
\* held content; a later listing of the same documents ended with UnknownKind
C19_Witness ==
    /\ UnknownKindListed
    /\ allContent # <<>>
    /\ lastOp.name = "loadContent"
    /\ error # NULL
    /\ error.kind = "UnknownKind"
    /\ dueContent = {}
    /\ contentUnsubscribe # NoHandle
    /\ \A i \in DOMAIN allContent : allContent[i].type \in ContentTypes
    /\ Len(allContent) < Len(remoteContent)

\* C20: while the Gateway call of a mutation has not resolved, isLoading is
\* true, whatever pushes arrive and whatever other mutations complete.
C20_LoadingWhileStalled ==
    (\E t \in Tasks : AwaitingGateway(t)) => isLoading

\* the fields content-types.ts defines for kind k, in a stored document and
\* in an item
CommonFields ==
    {"userId", "title", "description", "tags", "createdAt", "updatedAt", "type",
     "isFavorite", "isPublic", "collections"}
RecordFields(k) == CommonFields \cup PayloadFields[k]
ItemFields(k) == {"id"} \cup RecordFields(k)

\* absent optional fields as their defaults
Normalized(r) ==
    Merge([description |-> "", tags |-> <<>>, isFavorite |-> FALSE,
           isPublic |-> FALSE, collections |-> <<>>], r)

SameField(a, b, f) == Has(a, f) = Has(b, f) /\ (Has(a, f) => a[f] = b[f])

\* C21: convertFromContent(convertToContent(record)) is record and
\* convertToContent(convertFromContent(item)) is item on every field defined
\* for the kind, absent optional fields taken as their defaults, and a
\* converted item has no payload field of another kind.
C21_CodecRoundTrips ==
    /\ lastOp.name = "decodeEncode" =>
        \A f \in RecordFields(lastOp.value.record.type) :
            SameField(Normalized(lastOp.value.record), lastOp.value.back, f)
    /\ lastOp.name = "encodeDecode" =>
        /\ \A f \in ItemFields(lastOp.value.item.type) :
            SameField(Normalized(lastOp.value.item), lastOp.value.back, f)
        /\ DOMAIN lastOp.value.back \subseteq ItemFields(lastOp.value.item.type)

\* C22: a successful addCollection appends the collection it returns at the
\* tail of collections; a successful editCollection(id, updates) merges
\* updates into the entries with that id and into selectedCollection when it
\* has that id; a successful removeCollection(id) takes the entries with that
\* id out and sets selectedCollection to null when it had that id; none of
\* them changes allContent, contentByType or selectedContent.
C22_CollectionMutations ==
    [][/\ EndedOkNext("addCollection") =>
            /\ collections' = Append(collections, lastOp'.value)
            /\ lastOp'.value.id = lastOp'.collectionId
            /\ UNCHANGED <<selectedCollection, allContent, contentByType,
                           selectedContent>>
       /\ EndedOkNext("editCollection") =>
            LET id == lastOp'.collectionId
                updates == tasks[lastOp'.task].updates
            IN /\ collections' =
                    [i \in DOMAIN collections |->
                        IF collections[i].id = id
                        THEN Merge(collections[i], updates) ELSE collections[i]]
               /\ selectedCollection' =
                    IF selectedCollection # NULL /\ selectedCollection.id = id
                    THEN Merge(selectedCollection, updates) ELSE selectedCollection
               /\ UNCHANGED <<allContent, contentByType, selectedContent>>
       /\ EndedOkNext("removeCollection") =>
            LET id == lastOp'.collectionId
            IN /\ collections' = SelectSeq(collections, LAMBDA item : item.id # id)
               /\ \A i \in DOMAIN collections' : collections'[i].id # id
               /\ selectedCollection' =
                    IF selectedCollection # NULL /\ selectedCollection.id = id
                    THEN NULL ELSE selectedCollection
               /\ UNCHANGED <<allContent, contentByType, selectedContent>>]_vars

\* editCollection of the selected album has returned: the new name is in the
\* collections entry and in the selection, and the selected content is as it
\* was restored
C22_Witness ==
    /\ EndedOk("editCollection")
    /\ lastOp.collectionId = 1
    /\ \E i \in DOMAIN collections :
            collections[i].id = 1 /\ collections[i].name = "c"
    /\ selectedCollection # NULL
    /\ selectedCollection.id = 1
    /\ selectedCollection.name = "c"
    /\ selectedContent # NULL

\* no identifier twice in s
DistinctIds(s) == \A i, j \in DOMAIN s : s[i].id = s[j].id => i = j

\* C23: allContent never holds two items with the same identifier, and
\* neither does any bucket of contentByType, under any interleaving of
\* addContent and pushes.
C23_NoDuplicateIds ==
    /\ DistinctIds(allContent)
    /\ \A k \in ContentTypes : DistinctIds(contentByType[k])

\* C24: for each content kind k, contentByType[k] is the subsequence of
\* allContent whose items have type k, in the same order and with the same
\* field values, after pushes, loadContent, addContent, removeContent and
\* editContent with any partial-field set.
C24_BucketsAreGrouping ==
    \A k \in ContentTypes : contentByType[k] = OfType(allContent, k)

\* C25: a selectedContent that is not null has the identifier of an item of
\* allContent and equals that item field for field, and a selectedCollection
\* that is not null likewise for collections, also after pushes that drop or
\* change the selected item and on a store restored from persisted state.
C25_SelectionIsListed ==
    /\ selectedContent # NULL =>
        \E i \in DOMAIN allContent : Strip(allContent[i]) = Strip(selectedContent)
    /\ selectedCollection # NULL =>
        \E i \in DOMAIN collections : collections[i] = selectedCollection

\* C26: every store operation that sets isLoading to true sets it to false
\* when it completes, whether it succeeds or fails, so that isLoading is
\* false when the last operation in flight has completed; also for
\* editContent and removeContent of an identifier that is not in allContent
\* when the Gateway call resolves.
C26_CompletionStopsLoading ==
    [][\A t \in Tasks :
        (~IsIdle(t) /\ tasks'[t].pc = "idle") => ~isLoading']_vars

\* C27: once cleanup has returned and until the next initialize, no
\* subscription push modifies allContent, contentByType or collections,
\* whatever sequence of initialize and cleanup calls came before.
C27_NoPushAfterCleanup ==
    [][(/\ contentUnsubscribe = NoHandle
        /\ collectionsUnsubscribe = NoHandle
        /\ lastOp'.name \in {"pushContent", "pushCollections"}) =>
            UNCHANGED <<allContent, contentByType, collections>>]_vars

\* both addToCollection calls have returned and each of the two items lists
\* collection k, in the store and in its remote document
BothAdded(k) ==
    /\ calls = 2
    /\ AllIdle
    /\ EndedOk("addToCollection")
    /\ \A id \in {1, 2} :
        /\ ListsOf(allContent, id) = {<<k>>}
        /\ Get(DataOf(remoteContent, id), "collections", <<>>) = <<k>>

\* C28: two addToCollection calls that add two distinct items, neither yet a
\* member, to the same collection and both succeed raise its contentCount by
\* two, in the store and in the remote document, however the two calls
\* interleave.
C28_TwoAddsCountTwo ==
    BothAdded(1) =>
        /\ FindById(collections, 1).contentCount = EmptyAlbumData.contentCount + 2
        /\ DataOf(remoteCollections, 1).contentCount = EmptyAlbumData.contentCount + 2

\* C29: two calls of the same toggle for item id that both complete
\* successfully, with no push in between, leave the toggled field of the item
\* as it was before them, in the store and in the remote document, also when
\* the second call starts before the Gateway update of the first has resolved.
C29_TwoTogglesRestore ==
    (/\ calls = 2
     /\ AllIdle
     /\ lastOp.name \in Toggles
     /\ lastOp.result = "ok"
     /\ lastOp.gw = <<"updateContent">>) =>
        LET id == lastOp.contentId
            field == ToggledField(lastOp.name)
            original == Get(DataOf(SeededRemote.content, id), field, FALSE)
        IN /\ EntryOf(id)[field] = original
           /\ Get(DataOf(remoteContent, id), field, FALSE) = original

\* a content subscription is live, every snapshot owed has been delivered
\* and no store operation is in flight
Quiescent ==
    /\ contentUnsubscribe # NoHandle
    /\ dueContent = {}
    /\ AllIdle

\* C30: when a content subscription is live, every issued mutation has
\* completed and every push for the remote writes made so far has been
\* delivered, allContent is the remote sequence of the owner's items, each
\* once and newest-created first, and contentByType is its grouping, in
\* whatever order the pushes and the Gateway resolutions were interleaved.
C30_ConvergesToRemote ==
    Quiescent =>
        /\ StripSeq(allContent) = StripSeq(SnapshotContent(CurrentUser))
        /\ \A k \in ContentTypes :
            StripSeq(contentByType[k])
                = StripSeq(OfType(SnapshotContent(CurrentUser), k))

====
